---- MODULE Spec2Model ----
(***************************************************************************)
(* FINTEL AI: the document store adapter (database.py), the historical     *)
(* anomaly detector (FintelDatabase.detect_anomalies), the compliance      *)
(* scorer (fintel_api_fixed.py) and the GST format validators.             *)
(*                                                                         *)
(* Amounts are integral currency units; averages are compared by cross     *)
(* multiplication (current > 3 * sum / n  <=>  current * n > 3 * sum), and  *)
(* the rounding of the floating-point quotient is given where the exact    *)
(* values are equal.  Scorer points are counted in half points, the unit   *)
(* of the GST format award.                                                *)
(***************************************************************************)
EXTENDS Integers, Sequences, FiniteSets, TLC

VARIABLES
    invoices,       \* db.invoices: documents in insertion order
    vendors,        \* db.vendors: set of rows, unique index on gstNumber
    anomalies,      \* db.anomalies: documents in insertion order
    pending,        \* upload_invoice_complete between store_invoice and detect_anomalies
    lastRun,        \* the last detect_anomalies call: its arguments and its return value
    now,            \* datetime.now(): [day, tod]
    reqs,           \* concurrent upload requests: position and locals of each
    scoreCall,      \* the last process_complete_compliance call: arguments and result
    gstCall,        \* the last GST format validation call: function, argument, result
    trendsView,     \* the last get_anomaly_trends call: arguments and result
    anomaliesView,  \* the last get_anomalies call: arguments and result
    uploadView,     \* the last upload_invoice_complete call: file, locals, response
    historyView     \* the last get_invoice_history call: arguments and result

vars == <<invoices, vendors, anomalies, pending, lastRun, now, reqs,
          scoreCall, gstCall, trendsView, anomaliesView, uploadView, historyView>>

storeVars == <<invoices, vendors, anomalies>>
pureVars == <<scoreCall, gstCall>>
viewVars == <<trendsView, anomaliesView, uploadView, historyView>>

(***************************************************************************)
(* Bounds of the model.                                                    *)
(***************************************************************************)
MaxInvoices == 3        \* invoices uploaded in a sequential run
MaxRequests == 2        \* concurrent upload requests
MaxDay == 3             \* calendar days the clock runs through
MaxTrendDays == 2       \* largest `days` argument of get_anomaly_trends
MaxReadUploads == 2     \* invoices uploaded in a run with dashboard reads
MaxGstNumbers == 3      \* longest gst_numbers list given to the scorer

(***************************************************************************)
(* Values.                                                                 *)
(***************************************************************************)
None == "None"                      \* Python None / a missing key, for a string field
NoId == [kind |-> "None", n |-> 0]  \* None where an id is expected

\* An ObjectId and the str() of an ObjectId are different BSON types: MongoDB
\* never finds a string equal to an ObjectId, whatever the digits.
OidOf(n) == [kind |-> "ObjectId", n |-> n]
StrOf(oid) == [kind |-> "str", n |-> oid.n]
ObjectIdOf(s) == IF s.kind = "str" THEN [kind |-> "ObjectId", n |-> s.n] ELSE s

GstA == "22AAAAA0000A1Z5"

Max(a, b) == IF a >= b THEN a ELSE b
Min(a, b) == IF a <= b THEN a ELSE b
Abs(x) == IF x >= 0 THEN x ELSE -x

RECURSIVE SumSeq(_)
SumSeq(s) == IF s = <<>> THEN 0 ELSE Head(s) + SumSeq(Tail(s))

\* the sum of totalAmount over a set of invoice documents
RECURSIVE SumAmounts(_)
SumAmounts(S) ==
    IF S = {} THEN 0
    ELSE LET d == CHOOSE y \in S : TRUE IN d.totalAmount + SumAmounts(S \ {d})

Range(s) == {s[i] : i \in 1..Len(s)}

\* Python truthiness of a string-or-None field, of a list, of a number
Truthy(v) == v # None /\ v # ""
TruthyList(l) == l # <<>>
TruthyNum(x) == x # 0

(***************************************************************************)
(* store_invoice (database.py 46-78)                                       *)
(***************************************************************************)
\* invoice_doc: the fields of the document that any query of the module reads
InvoiceDoc(data, id, t) ==
    [ _id |-> id,
      uploadDate |-> t,
      invoiceNumber |-> data.invoice_number,
      vendorName |-> data.vendor_name,
      gstNumber |-> IF TruthyList(data.gst_numbers) THEN data.gst_numbers[1] ELSE None,
      totalAmount |-> data.total_amount,
      hsnCodes |-> data.hsn_sac_codes ]

\* insert_one assigns a fresh ObjectId
NextId(invs) == OidOf(Len(invs) + 1)

\* mutant: only the sentinel is skipped
SkipsVendorStatsSentinelOnly(doc) == doc.gstNumber = "Unknown"

\* _update_vendor_stats guard (database.py 85)
SkipsVendorStats(doc) == ~Truthy(doc.gstNumber) \/ doc.gstNumber = "Unknown"

\* vendors.find_one({'gstNumber': gst_number})
VendorRows(vs, gst) == {v \in vs : v.gstNumber = gst}

\* mutant: the name of the row is left as it was
IncVendorKeepsName(vs, doc, t) ==
    { IF v.gstNumber = doc.gstNumber
      THEN [v EXCEPT !.totalInvoices = @ + 1,
                     !.totalAmount = @ + doc.totalAmount,
                     !.lastInvoiceDate = t]
      ELSE v : v \in vs }

\* vendors.update_one(..., {'$inc': ..., '$set': ...}) (database.py 92-104):
\* one atomic server-side operation on the matching row, none when no row matches
IncVendor(vs, doc, t) ==
    { IF v.gstNumber = doc.gstNumber
      THEN [v EXCEPT !.totalInvoices = @ + 1,
                     !.totalAmount = @ + doc.totalAmount,
                     !.lastInvoiceDate = t,
                     !.vendorName = doc.vendorName]
      ELSE v : v \in vs }

\* the row of vendors.insert_one (database.py 107-114)
NewVendor(doc, t) ==
    [ gstNumber |-> doc.gstNumber,
      vendorName |-> doc.vendorName,
      totalInvoices |-> 1,
      totalAmount |-> doc.totalAmount,
      firstInvoiceDate |-> t,
      lastInvoiceDate |-> t ]

\* _update_vendor_stats run without interruption (database.py 80-114)
UpdateVendorStats(vs, doc, t) ==
    IF SkipsVendorStats(doc) THEN vs
    ELSE IF VendorRows(vs, doc.gstNumber) # {} THEN IncVendor(vs, doc, t)
    ELSE vs \cup {NewVendor(doc, t)}

(***************************************************************************)
(* detect_anomalies (database.py 116-267)                                  *)
(***************************************************************************)
Entry(type, severity, related) ==
    [type |-> type, severity |-> severity, relatedInvoiceId |-> related]

\* mutant: the query may miss a document that is stored
FindOneOrNone(matches) == {<<>>} \cup {<<d>> : d \in matches}

\* find_one returns one of the matching documents, or None: <<d>> or <<>>
FindOne(matches) == IF matches = {} THEN {<<>>} ELSE {<<d>> : d \in matches}

\* mutant: the id compared is the string, which no _id equals
DuplicateMatchesStringId(invs, data, invoice_id) ==
    {d \in Range(invs) : d.invoiceNumber = data.invoice_number /\ d._id # invoice_id}

\* 1. invoices.find_one({'invoiceNumber': n, '_id': {'$ne': obj_id}})
DuplicateMatches(invs, data, invoice_id) ==
    {d \in Range(invs) : d.invoiceNumber = data.invoice_number
                         /\ d._id # ObjectIdOf(invoice_id)}

DuplicateCheck(dup) ==
    IF dup # <<>>
    THEN <<Entry("DUPLICATE_INVOICE", "HIGH", StrOf(dup[1]._id))>>
    ELSE <<>>

\* 2. missing GST
MissingGstCheck(data) ==
    IF ~TruthyList(data.gst_numbers) \/ Len(data.gst_numbers) = 0 \/ data.gst_missing
    THEN <<Entry("MISSING_GST", "HIGH", NoId)>>
    ELSE <<>>

PrimaryGst(data) == IF TruthyList(data.gst_numbers) THEN data.gst_numbers[1] ELSE None

\* 3. invalid GST: position 0 of the verification list
InvalidGstCheck(data) ==
    IF Truthy(PrimaryGst(data)) /\ Len(data.gst_verification) > 0
       /\ (~data.gst_verification[1].success \/ ~data.gst_verification[1].is_active)
    THEN <<Entry("INVALID_GST", "HIGH", NoId)>>
    ELSE <<>>

\* mutant: the vendor name is not part of the query
MismatchMatchesAnyVendor(invs, data, invoice_id) ==
    IF Truthy(PrimaryGst(data))
    THEN {d \in Range(invs) : d.gstNumber = PrimaryGst(data)
                              /\ d._id # ObjectIdOf(invoice_id)}
    ELSE {}

\* 4. invoices.find_one({'gstNumber': g, 'vendorName': {'$ne': v}, '_id': {'$ne': obj_id}})
MismatchMatches(invs, data, invoice_id) ==
    IF Truthy(PrimaryGst(data))
    THEN {d \in Range(invs) : d.gstNumber = PrimaryGst(data)
                              /\ d.vendorName # data.vendor_name
                              /\ d._id # ObjectIdOf(invoice_id)}
    ELSE {}

MismatchCheck(mis) ==
    IF mis # <<>>
    THEN <<Entry("GST_VENDOR_MISMATCH", "HIGH", StrOf(mis[1]._id))>>
    ELSE <<>>

\* vendors_stats (database.py 269-281): $match on vendorName, one group; no
\* group when nothing matches.  avgAmount is kept as sum and count.
VendorsStats(invs, vendor_name) ==
    LET m == {d \in Range(invs) : d.vendorName = vendor_name}
    IN  IF m = {} THEN <<>>
        ELSE <<[sumAmount |-> SumAmounts(m), totalInvoices |-> Cardinality(m)]>>

\* The totals are whole currency units, except the sample 1999, which stands
\* for 1999.99.  avg_amount * 3 in binary64, round to nearest even, when the
\* exact average is a third of the amount: fl(fl(a / 3) * 3) is a for a whole
\* amount below 2^52 and 1999.9899999999998 for 1999.99
TripledThirdIsBelow(current) == current = 1999

\* current_amount > (avg_amount * 3) (database.py 202): decided by the exact
\* values, and by the rounding where they are equal
ExceedsTripledAverage(current, sum, n) ==
    \/ current * n > 3 * sum
    \/ current * n = 3 * sum /\ TripledThirdIsBelow(current)

\* 5. unusual amount: avg_amount > 0 and current_amount > avg_amount * 3
UnusualAmountCheck(invs, data) ==
    LET stats == VendorsStats(invs, data.vendor_name)
    IN  IF Truthy(data.vendor_name) /\ data.vendor_name # "Unknown"
           /\ stats # <<>>
           /\ stats[1].sumAmount > 0
           /\ ExceedsTripledAverage(data.total_amount, stats[1].sumAmount,
                                    stats[1].totalInvoices)
        THEN <<Entry("UNUSUAL_AMOUNT", "MEDIUM", NoId)>>
        ELSE <<>>

\* 6. one entry per verification that is not valid
RECURSIVE InvalidHsnCheck(_)
InvalidHsnCheck(vers) ==
    IF vers = <<>> THEN <<>>
    ELSE (IF ~Head(vers).is_valid
          THEN <<Entry("INVALID_HSN_SAC", "HIGH", NoId)>> ELSE <<>>)
         \o InvalidHsnCheck(Tail(vers))

\* 7. one entry per rate mismatch of the line item verification
RateMismatchCheck(data) ==
    [i \in 1..data.rate_mismatches |-> Entry("HSN_GST_RATE_MISMATCH", "HIGH", NoId)]

\* 8. invoices.find({'hsnCodes': hsn, '_id': {'$ne': invoice_id}}): the id
\* compared is the string handed to detect_anomalies, not obj_id
SimilarInvoices(invs, hsn, invoice_id) ==
    {d \in Range(invs) : hsn \in Range(d.hsnCodes) /\ d._id # invoice_id}

HsnLimit == 10
HsnMinSimilar == 3
HsnMaxCodes == 3

\* .limit(10): any 10 of the matches when there are more
Limited(S, n) ==
    IF Cardinality(S) <= n THEN {S} ELSE {T \in SUBSET S : Cardinality(T) = n}

\* the test of database.py 240-247 on the fetched documents
HsnDeviates(sim, data) ==
    LET pos == {d \in sim : d.totalAmount > 0}
        total == SumAmounts(pos)
        n == Cardinality(pos)
    IN  /\ Cardinality(sim) >= HsnMinSimilar
        /\ pos # {}
        /\ total > 0
        /\ 2 * Abs(data.total_amount * n - total) > total

\* mutant: the loop goes on after a report
HsnNoBreak(rest) == rest

\* break (database.py 253): what the remaining codes would add is dropped
HsnBreak(rest) == <<>>

\* the loop over hsn_codes[:3]; the set of lists the loop can produce
RECURSIVE HsnLoop(_, _, _, _)
HsnLoop(invs, data, invoice_id, codes) ==
    IF codes = <<>> THEN {<<>>}
    ELSE UNION { IF HsnDeviates(sim, data)
                 THEN { <<Entry("HSN_PRICE_DEVIATION", "MEDIUM", NoId)>> \o r :
                           r \in {HsnBreak(x) : x \in HsnLoop(invs, data, invoice_id, Tail(codes))} }
                 ELSE HsnLoop(invs, data, invoice_id, Tail(codes))
               : sim \in Limited(SimilarInvoices(invs, Head(codes), invoice_id), HsnLimit) }

HsnPriceCheck(invs, data, invoice_id) ==
    HsnLoop(invs, data, invoice_id,
            SubSeq(data.hsn_sac_codes, 1, Min(HsnMaxCodes, Len(data.hsn_sac_codes))))

\* mutant: the vendor aggregation runs before the query for another vendor name
DetectResultsStatsFirst(invs, data, invoice_id) ==
    { DuplicateCheck(dup) \o MissingGstCheck(data) \o InvalidGstCheck(data)
      \o UnusualAmountCheck(invs, data) \o MismatchCheck(mis)
      \o InvalidHsnCheck(data.hsn_sac_verification) \o RateMismatchCheck(data) \o hsn :
        dup \in FindOne(DuplicateMatches(invs, data, invoice_id)),
        mis \in FindOne(MismatchMatches(invs, data, invoice_id)),
        hsn \in HsnPriceCheck(invs, data, invoice_id) }

\* the lists detect_anomalies can return for one content of the store
DetectResults(invs, data, invoice_id) ==
    { DuplicateCheck(dup) \o MissingGstCheck(data) \o InvalidGstCheck(data)
      \o MismatchCheck(mis) \o UnusualAmountCheck(invs, data)
      \o InvalidHsnCheck(data.hsn_sac_verification) \o RateMismatchCheck(data) \o hsn :
        dup \in FindOne(DuplicateMatches(invs, data, invoice_id)),
        mis \in FindOne(MismatchMatches(invs, data, invoice_id)),
        hsn \in HsnPriceCheck(invs, data, invoice_id) }

\* mutant: the owner is the id the next insert will be given
AnomalyDocNextId(entry, data, invoice_id, t) ==
    [ invoiceId |-> [invoice_id EXCEPT !.n = @ + 1],
      invoiceNumber |-> data.invoice_number,
      anomalyType |-> entry.type,
      severity |-> entry.severity,
      detectedDate |-> t,
      relatedInvoiceId |-> entry.relatedInvoiceId ]

\* the document of anomalies.insert_one (database.py 257-265)
AnomalyDoc(entry, data, invoice_id, t) ==
    [ invoiceId |-> invoice_id,
      invoiceNumber |-> data.invoice_number,
      anomalyType |-> entry.type,
      severity |-> entry.severity,
      detectedDate |-> t,
      relatedInvoiceId |-> entry.relatedInvoiceId ]

\* mutant: the first entry of the list is not stored
PersistAllButFirst(entries, data, invoice_id, t) ==
    [i \in 1..(Len(entries) - 1) |-> AnomalyDoc(entries[i + 1], data, invoice_id, t)]

\* the loop of database.py 256-265
PersistAll(entries, data, invoice_id, t) ==
    [i \in 1..Len(entries) |-> AnomalyDoc(entries[i], data, invoice_id, t)]

(***************************************************************************)
(* upload_invoice_complete (fintel_api_fixed.py 263-376): the dictionary   *)
(* handed to store_invoice and detect_anomalies                            *)
(***************************************************************************)
\* gst_verification has one result per GST number; without GST numbers it is the
\* single "not found in invoice" result and gst_missing is set (274-308)
GstVerification(gsts, ok) ==
    IF TruthyList(gsts) /\ Len(gsts) > 0
    THEN [i \in 1..Len(gsts) |-> [success |-> ok, is_active |-> ok]]
    ELSE <<[success |-> FALSE, is_active |-> FALSE]>>

InvoiceData(number, vendor, gsts, amount, hsn, gstOk, hsnVers, mismatches) ==
    [ invoice_number |-> number,
      vendor_name |-> vendor,
      gst_numbers |-> gsts,
      total_amount |-> amount,
      hsn_sac_codes |-> hsn,
      gst_verification |-> GstVerification(gsts, gstOk),
      gst_missing |-> ~(TruthyList(gsts) /\ Len(gsts) > 0),
      hsn_sac_verification |-> hsnVers,
      rate_mismatches |-> mismatches ]

(***************************************************************************)
(* The sequential pipeline: one upload at a time                           *)
(***************************************************************************)
\* db.store_invoice(invoice_storage_data) (fintel_api_fixed.py 373)
StoreInvoiceCall(data) ==
    /\ pending = <<>>
    /\ LET id == NextId(invoices)
           doc == InvoiceDoc(data, id, now)
       IN  /\ invoices' = Append(invoices, doc)
           /\ vendors' = UpdateVendorStats(vendors, doc, now)
           /\ pending' = <<[data |-> data, invoice_id |-> StrOf(id)]>>
    /\ UNCHANGED <<anomalies, lastRun, now, reqs, pureVars, viewVars>>

StoreInvoice(data) == Len(invoices) < MaxInvoices /\ StoreInvoiceCall(data)

\* db.detect_anomalies(invoice_storage_data, invoice_id) (fintel_api_fixed.py 376)
DetectAnomalies ==
    /\ pending # <<>>
    /\ LET data == pending[1].data
           id == pending[1].invoice_id
       IN  \E result \in DetectResults(invoices, data, id) :
              /\ anomalies' = anomalies \o PersistAll(result, data, id, now)
              /\ lastRun' = <<[data |-> data, invoice_id |-> id, result |-> result]>>
    /\ pending' = <<>>
    /\ UNCHANGED <<invoices, vendors, now, reqs, pureVars, viewVars>>

NoCall == <<>>

\* a request that has not reached store_invoice
IdleRequest ==
    [pc |-> "idle", data |-> <<>>, invoice_id |-> NoId, found |-> FALSE,
     result |-> <<>>, stored |-> 0]

Init ==
    /\ invoices = <<>>
    /\ vendors = {}
    /\ anomalies = <<>>
    /\ pending = <<>>
    /\ lastRun = <<>>
    /\ now = [day |-> 0, tod |-> 0]
    /\ reqs = [r \in 1..MaxRequests |-> IdleRequest]
    /\ scoreCall = NoCall
    /\ gstCall = NoCall
    /\ trendsView = NoCall
    /\ anomaliesView = NoCall
    /\ uploadView = NoCall
    /\ historyView = NoCall

\* uploads that differ in invoice number, vendor, GST number, the answer of the
\* GST oracle and amount
InvoiceInputs ==
    { InvoiceData(number, vendor, gsts, amount, <<>>, ok, <<>>, 0) :
        number \in {"INV-1", "INV-2"},
        vendor \in {"Acme", "Bolt"},
        gsts \in {<<>>, <<GstA>>},
        amount \in {10000, 35000},
        ok \in BOOLEAN }

Next ==
    \/ \E data \in InvoiceInputs : StoreInvoice(data)
    \/ DetectAnomalies

Spec == Init /\ [][Next]_vars

\* uploads that differ in HSN/SAC codes and amount, some with codes the HSN/SAC
\* oracle rejects and with rate mismatches
HsnInputs ==
    { InvoiceData("INV-1", "Acme", <<GstA>>, amount, hsn, TRUE, <<>>, 0) :
        amount \in {0, 10000, 35000},
        hsn \in {<<>>, <<"8517">>, <<"8471">>, <<"8517", "8471">>} }
    \cup { InvoiceData("INV-1", "Acme", <<GstA>>, 35000, <<"8517", "8471">>, TRUE,
                       <<[code |-> "8517", is_valid |-> valid],
                         [code |-> "8471", is_valid |-> FALSE]>>, mismatches) :
             valid \in BOOLEAN, mismatches \in {1, 2} }

NextHsn ==
    \/ \E data \in HsnInputs : StoreInvoice(data)
    \/ DetectAnomalies

SpecHsn == Init /\ [][NextHsn]_vars

(***************************************************************************)
(* Properties of the sequential pipeline                                   *)
(***************************************************************************)
TypesOf(result) == {result[i].type : i \in 1..Len(result)}
EntriesOf(result, type) == {i \in 1..Len(result) : result[i].type = type}

\* the last detector run was for the invoice stored last: the store is the one it read
RunIsLatest ==
    /\ lastRun # <<>>
    /\ pending = <<>>
    /\ lastRun[1].invoice_id = StrOf(OidOf(Len(invoices)))

\* stored invoices, other than the one evaluated, with the evaluated invoice's number
OthersWithNumber ==
    {d \in Range(invoices) : d.invoiceNumber = lastRun[1].data.invoice_number
                             /\ d._id # OidOf(Len(invoices))}

\* C2: when exactly one other stored invoice A has the number of the invoice B just
\* evaluated, B's detector run returns exactly one DUPLICATE_INVOICE entry, of
\* severity HIGH, whose relatedInvoiceId is A's id.
C2_DuplicateReported ==
    (RunIsLatest /\ Cardinality(OthersWithNumber) = 1) =>
        LET run == lastRun[1]
            a == CHOOSE d \in OthersWithNumber : TRUE
            dups == EntriesOf(run.result, "DUPLICATE_INVOICE")
        IN  /\ Cardinality(dups) = 1
            /\ \A i \in dups : /\ run.result[i].severity = "HIGH"
                               /\ run.result[i].relatedInvoiceId = StrOf(a._id)

C2_Witness ==
    /\ RunIsLatest
    /\ Cardinality(OthersWithNumber) = 1
    /\ Len(invoices) = 3
    /\ invoices[1].invoiceNumber = invoices[3].invoiceNumber

\* C3: from an empty store, after A (10000, Acme, GST 22AAAAA0000A1Z5) and then
\* B (35000, Acme, no GST) are stored, B's detector run contains both MISSING_GST
\* and UNUSUAL_AMOUNT.
C3_ExampleUnusualAmount ==
    ( /\ RunIsLatest
      /\ Len(invoices) = 2
      /\ invoices[1].vendorName = "Acme" /\ invoices[1].totalAmount = 10000
      /\ invoices[1].gstNumber = GstA
      /\ invoices[2].vendorName = "Acme" /\ invoices[2].totalAmount = 35000
      /\ invoices[2].gstNumber = None )
    => {"MISSING_GST", "UNUSUAL_AMOUNT"} \subseteq TypesOf(lastRun[1].result)

\* C4: storing an invoice whose GST-number list is empty leaves the vendors
\* collection unchanged, and the detector run for that invoice contains MISSING_GST.
C4_NoGstStep ==
    /\ ( /\ Len(invoices') = Len(invoices) + 1
         /\ pending'[1].data.gst_numbers = <<>> ) => vendors' = vendors
    /\ ( /\ pending # <<>> /\ pending' = <<>>
         /\ pending[1].data.gst_numbers = <<>> )
       => /\ lastRun'[1].invoice_id = pending[1].invoice_id
          /\ "MISSING_GST" \in TypesOf(lastRun'[1].result)

C4_NoGstNoVendorUpdate == [][C4_NoGstStep]_vars

C4_Witness ==
    /\ RunIsLatest
    /\ lastRun[1].data.gst_numbers = <<>>
    /\ vendors # {}
    /\ "MISSING_GST" \in TypesOf(lastRun[1].result)

\* stored invoices, other than the one evaluated, that carry the HSN code
OthersWithHsn(hsn) ==
    {d \in Range(invoices) : hsn \in Range(d.hsnCodes) /\ d._id # OidOf(Len(invoices))}

\* C5: HSN_PRICE_DEVIATION is evaluated for a code only when at least 3 stored
\* invoices other than the invoice under evaluation share that code.
C5_ThreeOtherInvoices ==
    (RunIsLatest /\ "HSN_PRICE_DEVIATION" \in TypesOf(lastRun[1].result)) =>
        \E hsn \in Range(lastRun[1].data.hsn_sac_codes) :
            Cardinality(OthersWithHsn(hsn)) >= HsnMinSimilar

\* C6: a detector run returns at most one HSN_PRICE_DEVIATION entry.
C6_AtMostOneHsnDeviation ==
    lastRun # <<>> =>
        Cardinality(EntriesOf(lastRun[1].result, "HSN_PRICE_DEVIATION")) <= 1

\* both codes of the evaluated invoice qualify on their own
C6_Witness ==
    /\ RunIsLatest
    /\ Len(lastRun[1].data.hsn_sac_codes) = 2
    /\ \A hsn \in Range(lastRun[1].data.hsn_sac_codes) :
          HsnDeviates(SimilarInvoices(invoices, hsn, lastRun[1].invoice_id), lastRun[1].data)
    /\ "HSN_PRICE_DEVIATION" \in TypesOf(lastRun[1].result)

(***************************************************************************)
(* Concurrent uploads: every access to the store is one step of a request  *)
(***************************************************************************)
Requests == 1..MaxRequests

Goto(r, pc) == reqs' = [reqs EXCEPT ![r].pc = pc]

\* the document a request inserted
DocOf(r) == invoices[reqs[r].invoice_id.n]

\* where a request stands after a step of detect_anomalies: the checks in front
\* of it that read nothing from the store are part of the step
AfterDuplicate(data) == IF Truthy(PrimaryGst(data)) THEN "q_mismatch" ELSE "q_stats"
AfterStats(data, result) ==
    IF TruthyList(data.hsn_sac_codes) THEN "q_hsn"
    ELSE IF result # <<>> THEN "persist" ELSE "done"
AfterHsn(result) == IF result # <<>> THEN "persist" ELSE "done"

\* invoices.insert_one(invoice_doc); invoice_id = str(result.inserted_id)
\* (database.py 71-72), up to the early return of _update_vendor_stats (85-86)
ReqInsertInvoice(r, data) ==
    /\ reqs[r].pc = "idle"
    /\ LET id == NextId(invoices)
           doc == InvoiceDoc(data, id, now)
       IN  /\ invoices' = Append(invoices, doc)
           /\ reqs' = [reqs EXCEPT ![r].pc = IF SkipsVendorStats(doc) THEN "q_duplicate"
                                             ELSE "vendor_find",
                                   ![r].data = <<data>>,
                                   ![r].invoice_id = StrOf(id)]
    /\ UNCHANGED <<vendors, anomalies, pending, lastRun, now, pureVars, viewVars>>

\* vendor = self.vendors.find_one({'gstNumber': gst_number}) (database.py 88)
ReqVendorFind(r) ==
    /\ reqs[r].pc = "vendor_find"
    /\ reqs' = [reqs EXCEPT ![r].pc = "vendor_write",
                            ![r].found = VendorRows(vendors, DocOf(r).gstNumber) # {}]
    /\ UNCHANGED <<storeVars, pending, lastRun, now, pureVars, viewVars>>

\* if vendor: self.vendors.update_one(...) (database.py 90-104)
ReqVendorUpdate(r) ==
    /\ reqs[r].pc = "vendor_write"
    /\ reqs[r].found
    /\ vendors' = IncVendor(vendors, DocOf(r), now)
    /\ Goto(r, "q_duplicate")
    /\ UNCHANGED <<invoices, anomalies, pending, lastRun, now, pureVars, viewVars>>

\* else: self.vendors.insert_one(...) (database.py 105-114)
ReqVendorInsert(r) ==
    /\ reqs[r].pc = "vendor_write"
    /\ ~reqs[r].found
    /\ VendorRows(vendors, DocOf(r).gstNumber) = {}
    /\ vendors' = vendors \cup {NewVendor(DocOf(r), now)}
    /\ Goto(r, "q_duplicate")
    /\ UNCHANGED <<invoices, anomalies, pending, lastRun, now, pureVars, viewVars>>

\* the unique index on vendors.gstNumber (database.py 38) rejects a second row:
\* insert_one raises DuplicateKeyError, store_invoice raises, and the handler
\* answers success = False (fintel_api_fixed.py 470-474)
ReqVendorInsertFails(r) ==
    /\ reqs[r].pc = "vendor_write"
    /\ ~reqs[r].found
    /\ VendorRows(vendors, DocOf(r).gstNumber) # {}
    /\ Goto(r, "failed")
    /\ UNCHANGED <<storeVars, pending, lastRun, now, pureVars, viewVars>>

\* detect_anomalies, checks 1 to 3: the duplicate query (database.py 130-166)
ReqQueryDuplicate(r) ==
    /\ reqs[r].pc = "q_duplicate"
    /\ LET data == reqs[r].data[1]
       IN  \E dup \in FindOne(DuplicateMatches(invoices, data, reqs[r].invoice_id)) :
              reqs' = [reqs EXCEPT ![r].pc = AfterDuplicate(data),
                                   ![r].result = DuplicateCheck(dup) \o MissingGstCheck(data)
                                                 \o InvalidGstCheck(data)]
    /\ UNCHANGED <<storeVars, pending, lastRun, now, pureVars, viewVars>>

\* check 4: the query for another vendor name (database.py 168-181)
ReqQueryMismatch(r) ==
    /\ reqs[r].pc = "q_mismatch"
    /\ LET data == reqs[r].data[1]
       IN  \E mis \in FindOne(MismatchMatches(invoices, data, reqs[r].invoice_id)) :
              reqs' = [reqs EXCEPT ![r].pc = "q_stats",
                                   ![r].result = @ \o MismatchCheck(mis)]
    /\ UNCHANGED <<storeVars, pending, lastRun, now, pureVars, viewVars>>

\* checks 5 to 7: the vendor aggregation (database.py 183-229)
ReqQueryStats(r) ==
    /\ reqs[r].pc = "q_stats"
    /\ LET data == reqs[r].data[1]
           result == reqs[r].result \o UnusualAmountCheck(invoices, data)
                     \o InvalidHsnCheck(data.hsn_sac_verification)
                     \o RateMismatchCheck(data)
       IN  reqs' = [reqs EXCEPT ![r].pc = AfterStats(data, result), ![r].result = result]
    /\ UNCHANGED <<storeVars, pending, lastRun, now, pureVars, viewVars>>

\* check 8: the queries by HSN code (database.py 231-253)
ReqQueryHsn(r) ==
    /\ reqs[r].pc = "q_hsn"
    /\ LET data == reqs[r].data[1]
       IN  \E hsn \in HsnPriceCheck(invoices, data, reqs[r].invoice_id) :
              reqs' = [reqs EXCEPT ![r].pc = AfterHsn(reqs[r].result \o hsn),
                                   ![r].result = @ \o hsn]
    /\ UNCHANGED <<storeVars, pending, lastRun, now, pureVars, viewVars>>

\* one turn of the loop of database.py 256-265: one anomalies.insert_one; after
\* the last one detect_anomalies returns and the handler answers
ReqPersistOne(r) ==
    /\ reqs[r].pc = "persist"
    /\ reqs[r].stored < Len(reqs[r].result)
    /\ anomalies' = Append(anomalies,
                           AnomalyDoc(reqs[r].result[reqs[r].stored + 1], reqs[r].data[1],
                                      reqs[r].invoice_id, now))
    /\ reqs' = [reqs EXCEPT ![r].stored = @ + 1,
                            ![r].pc = IF reqs[r].stored + 1 = Len(reqs[r].result)
                                      THEN "done" ELSE "persist"]
    /\ UNCHANGED <<invoices, vendors, pending, lastRun, now, pureVars, viewVars>>

\* concurrent uploads of one invoice number that differ in GST number, amount
\* and HSN/SAC codes
ConcInputs ==
    { InvoiceData("INV-1", "Acme", gsts, amount, hsn, TRUE, <<>>, 0) :
        gsts \in {<<>>, <<GstA>>},
        amount \in {10000, 35000},
        hsn \in {<<>>} }
    \cup {InvoiceData("INV-1", "Acme", <<GstA>>, 10000, <<"8517">>, TRUE, <<>>, 0)}

NextConc ==
    \E r \in Requests :
        \/ \E data \in ConcInputs : ReqInsertInvoice(r, data)
        \/ ReqVendorFind(r)
        \/ ReqVendorUpdate(r)
        \/ ReqVendorInsert(r)
        \/ ReqVendorInsertFails(r)
        \/ ReqQueryDuplicate(r)
        \/ ReqQueryMismatch(r)
        \/ ReqQueryStats(r)
        \/ ReqQueryHsn(r)
        \/ ReqPersistOne(r)

SpecConc == Init /\ [][NextConc]_vars

\* the requests whose store_invoice call was for the GST number
CallsFor(gst) ==
    {r \in Requests : reqs[r].pc # "idle" /\ PrimaryGst(reqs[r].data[1]) = gst}

RECURSIVE SumRequestAmounts(_)
SumRequestAmounts(rs) ==
    IF rs = {} THEN 0
    ELSE LET r == CHOOSE x \in rs : TRUE
         IN  reqs[r].data[1].total_amount + SumRequestAmounts(rs \ {r})

NoStoreInFlight == \A r \in Requests : reqs[r].pc \notin {"vendor_find", "vendor_write"}

\* C1: once all store_invoice calls for one GST number (present, not 'Unknown')
\* have finished, in any interleaving, none of them has failed and the vendor row
\* of that GST number has totalInvoices = N and totalAmount = the sum of the N totals.
C1_NoLostIncrement ==
    (NoStoreInFlight /\ CallsFor(GstA) # {}) =>
        /\ \A r \in CallsFor(GstA) : reqs[r].pc # "failed"
        /\ \E v \in vendors :
              /\ v.gstNumber = GstA
              /\ v.totalInvoices = Cardinality(CallsFor(GstA))
              /\ v.totalAmount = SumRequestAmounts(CallsFor(GstA))

(***************************************************************************)
(* get_anomalies (database.py 314-337)                                     *)
(***************************************************************************)
TimeLeq(a, b) == a.day < b.day \/ (a.day = b.day /\ a.tod <= b.tod)
TimeLt(a, b) == a.day < b.day \/ (a.day = b.day /\ a.tod < b.tod)

\* find(query): severity filters only when it is given
AnomalyMatches(anoms, severity) ==
    {i \in 1..Len(anoms) : Truthy(severity) => anoms[i].severity = severity}

\* .sort('detectedDate', DESCENDING).limit(limit): the documents returned; which
\* of several documents of one date are cut is not determined
NewestFirst(anoms, matches, limit) ==
    { T \in SUBSET matches :
        /\ Cardinality(T) = Min(limit, Cardinality(matches))
        /\ \A i \in T, j \in matches \ T :
              TimeLeq(anoms[j].detectedDate, anoms[i].detectedDate) }

\* self.invoices.find_one({'_id': anomaly['invoiceId']}): invoiceId is the string
\* that detect_anomalies stored
OwnerLookup(invs, anomaly) == {d \in Range(invs) : d._id = anomaly.invoiceId}

\* the enrichment of one returned document (database.py 326-335); invoice_number
\* is a key that is set only when the invoice is found
Enriched(invs, anoms, i, owner) ==
    [ _id |-> i,
      doc |-> anoms[i],
      vendor_name |-> IF anoms[i].invoiceId # NoId /\ owner # <<>>
                      THEN owner[1].vendorName ELSE "Unknown",
      invoice_number |-> IF anoms[i].invoiceId # NoId /\ owner # <<>>
                         THEN owner[1].invoiceNumber ELSE None ]

GetAnomaliesResults(invs, anoms, severity, limit) ==
    { { Enriched(invs, anoms, i, CHOOSE o \in FindOne(OwnerLookup(invs, anoms[i])) : TRUE) :
          i \in T } : T \in NewestFirst(anoms, AnomalyMatches(anoms, severity), limit) }

GetAnomalies(severity, limit) ==
    /\ \E result \in GetAnomaliesResults(invoices, anomalies, severity, limit) :
          anomaliesView' = <<[severity |-> severity, limit |-> limit, result |-> result]>>
    /\ UNCHANGED <<storeVars, pending, lastRun, now, reqs, pureVars, trendsView, uploadView,
                   historyView>>

(***************************************************************************)
(* get_anomaly_trends (database.py 364-445)                                *)
(***************************************************************************)
\* end_date - timedelta(days=days), current_date += timedelta(days=1)
PlusDays(t, n) == [day |-> t.day + n, tod |-> t.tod]

\* '%Y-%m-%d' of a datetime: its calendar day
DateString(t) == t.day

\* $match on detectedDate in [start_date, end_date], $group by date and type
TrendCount(anoms, start, end, date, types) ==
    Cardinality({i \in 1..Len(anoms) :
                    /\ TimeLeq(start, anoms[i].detectedDate)
                    /\ TimeLeq(anoms[i].detectedDate, end)
                    /\ DateString(anoms[i].detectedDate) = date
                    /\ anoms[i].anomalyType \in types})

AnomalyTypes ==
    {"DUPLICATE_INVOICE", "MISSING_GST", "INVALID_GST", "GST_VENDOR_MISMATCH",
     "UNUSUAL_AMOUNT", "INVALID_HSN_SAC", "HSN_GST_RATE_MISMATCH", "HSN_PRICE_DEVIATION"}

\* mutant: UNUSUAL_AMOUNT is in no branch of the chain
TrendKeyWithoutUnusual(anomaly_type) ==
    IF anomaly_type = "DUPLICATE_INVOICE" THEN "duplicates"
    ELSE IF anomaly_type \in {"INVALID_GST", "GST_VENDOR_MISMATCH"} THEN "invalidGst"
    ELSE IF anomaly_type = "MISSING_GST" THEN "missingGst"
    ELSE IF anomaly_type \in {"INVALID_HSN_SAC", "HSN_GST_RATE_MISMATCH",
                              "HSN_PRICE_DEVIATION"} THEN "hsnAnomalies"
    ELSE None

\* the if/elif chain of database.py 416-423: the key a type adds to, None for a
\* type of no branch
TrendKey(anomaly_type) ==
    IF anomaly_type = "DUPLICATE_INVOICE" THEN "duplicates"
    ELSE IF anomaly_type \in {"INVALID_GST", "GST_VENDOR_MISMATCH"} THEN "invalidGst"
    ELSE IF anomaly_type = "MISSING_GST" THEN "missingGst"
    ELSE IF anomaly_type \in {"INVALID_HSN_SAC", "HSN_GST_RATE_MISMATCH",
                              "HSN_PRICE_DEVIATION", "UNUSUAL_AMOUNT"} THEN "hsnAnomalies"
    ELSE None

\* the stored types that add to a key
TypesOfKey(anoms, key) ==
    {anoms[i].anomalyType : i \in {j \in 1..Len(anoms) : TrendKey(anoms[j].anomalyType) = key}}

\* the entry of one date (database.py 405-425 and 435-442): a date without
\* aggregated anomalies gets the same keys, all zero
TrendEntry(anoms, start, end, date) ==
    [ date |-> date,
      duplicates |-> TrendCount(anoms, start, end, date, TypesOfKey(anoms, "duplicates")),
      invalidGst |-> TrendCount(anoms, start, end, date, TypesOfKey(anoms, "invalidGst")),
      missingGst |-> TrendCount(anoms, start, end, date, TypesOfKey(anoms, "missingGst")),
      hsnAnomalies |-> TrendCount(anoms, start, end, date, TypesOfKey(anoms, "hsnAnomalies")),
      total |-> TrendCount(anoms, start, end, date, {anoms[i].anomalyType : i \in 1..Len(anoms)}) ]

\* mutant: the last day is left out
TrendLoopStopsEarly(current, end) == TimeLt(current, end)

\* while current_date <= end_date (database.py 430)
TrendLoopContinues(current, end) == TimeLeq(current, end)

RECURSIVE TrendLoop(_, _, _, _)
TrendLoop(anoms, start, end, current) ==
    IF TrendLoopContinues(current, end)
    THEN <<TrendEntry(anoms, start, end, DateString(current))>>
         \o TrendLoop(anoms, start, end, PlusDays(current, 1))
    ELSE <<>>

AnomalyTrends(anoms, t, days) ==
    TrendLoop(anoms, PlusDays(t, -days), t, PlusDays(t, -days))

GetAnomalyTrends(days) ==
    /\ trendsView' = <<[days |-> days, at |-> now,
                        result |-> AnomalyTrends(anomalies, now, days)]>>
    /\ UNCHANGED <<storeVars, pending, lastRun, now, reqs, pureVars, anomaliesView, uploadView,
                   historyView>>

\* the clock moves on: later the same day, or to the morning of the next day
TimesOfDay == {0, 1}

Tick ==
    /\ \/ /\ now.tod + 1 \in TimesOfDay
          /\ now' = [now EXCEPT !.tod = @ + 1]
       \/ /\ now.day < MaxDay
          /\ now' = [day |-> now.day + 1, tod |-> 0]
    /\ UNCHANGED <<storeVars, pending, lastRun, reqs, pureVars, viewVars>>

\* the response has been sent
Respond ==
    /\ \/ trendsView # NoCall
       \/ anomaliesView # NoCall
       \/ historyView # NoCall
    /\ trendsView' = NoCall
    /\ anomaliesView' = NoCall
    /\ historyView' = NoCall
    /\ UNCHANGED <<storeVars, pending, lastRun, now, reqs, pureVars, uploadView>>

\* the handlers have no await: the server runs one request to its response
\* before it takes the next
NoReadInProgress == trendsView = NoCall /\ anomaliesView = NoCall /\ historyView = NoCall

ServeStoreInvoice(data) ==
    NoReadInProgress /\ Len(invoices) < MaxReadUploads /\ StoreInvoice(data)
ServeDetectAnomalies == NoReadInProgress /\ DetectAnomalies
ServeTick == NoReadInProgress /\ Tick
ServeGetAnomalies(severity, limit) == NoReadInProgress /\ GetAnomalies(severity, limit)
ServeGetAnomalyTrends(days) == NoReadInProgress /\ GetAnomalyTrends(days)

\* uploads of one invoice number, with and without a GST number
TrendInputs ==
    { InvoiceData("INV-1", "Acme", gsts, 10000, <<>>, TRUE, <<>>, 0) :
        gsts \in {<<>>, <<GstA>>} }

NextTrends ==
    \/ \E data \in TrendInputs : ServeStoreInvoice(data)
    \/ ServeDetectAnomalies
    \/ ServeTick
    \/ \E days \in 0..MaxTrendDays : ServeGetAnomalyTrends(days)
    \/ Respond

SpecTrends == Init /\ [][NextTrends]_vars

\* uploads of one invoice number by two vendors, without GST number
ReadInputs ==
    { InvoiceData("INV-1", vendor, <<>>, 10000, <<>>, TRUE, <<>>, 0) :
        vendor \in {"Acme", "Bolt"} }

NextRead ==
    \/ \E data \in ReadInputs : ServeStoreInvoice(data)
    \/ ServeDetectAnomalies
    \/ ServeTick
    \/ \E severity \in {None, "HIGH", "MEDIUM"}, limit \in {1, 50} :
          ServeGetAnomalies(severity, limit)
    \/ Respond

SpecRead == Init /\ [][NextRead]_vars

\* C8: every anomaly returned by get_anomalies whose owning invoice exists in the
\* store carries the vendor name and the invoice number of that invoice.
C8_EnrichedFromOwner ==
    anomaliesView # NoCall =>
        \A a \in anomaliesView[1].result :
            \A d \in Range(invoices) :
                StrOf(d._id) = a.doc.invoiceId =>
                    /\ a.vendor_name = d.vendorName
                    /\ a.invoice_number = d.invoiceNumber

StoredOnDate(date) ==
    {i \in 1..Len(anomalies) : DateString(anomalies[i].detectedDate) = date}

\* C9: the trends of a range hold one entry per calendar day of
\* [startDate, endDate], days + 1 entries in ascending order without gap or
\* repetition, and a day without stored anomalies has all counts zero.
C9_OneEntryPerDay ==
    trendsView # NoCall =>
        LET v == trendsView[1]
        IN  /\ Len(v.result) = v.days + 1
            /\ \A k \in 1..Len(v.result) : v.result[k].date = v.at.day - v.days + k - 1
            /\ \A k \in 1..Len(v.result) :
                  StoredOnDate(v.result[k].date) = {} =>
                      /\ v.result[k].duplicates = 0 /\ v.result[k].invalidGst = 0
                      /\ v.result[k].missingGst = 0 /\ v.result[k].hsnAnomalies = 0
                      /\ v.result[k].total = 0

C9_Witness ==
    /\ trendsView # NoCall
    /\ trendsView[1].days = MaxTrendDays
    /\ Len(trendsView[1].result) = MaxTrendDays + 1
    /\ \E k \in 1..Len(trendsView[1].result) : trendsView[1].result[k].total > 0
    /\ \E k \in 1..Len(trendsView[1].result) :
          /\ StoredOnDate(trendsView[1].result[k].date) = {}
          /\ trendsView[1].result[k].total = 0

(***************************************************************************)
(* GST format validation: strings are sequences of characters              *)
(***************************************************************************)
Digit == {"0", "1", "2", "5"}
NonZeroDigit == Digit \ {"0"}
UpperLetter == {"A", "S", "Z"}
LowerLetter == {"a", "z", "ß"}

\* str.upper() on one character: the sharp s becomes two letters
UpperChar(c) ==
    IF c = "a" THEN <<"A">> ELSE IF c = "z" THEN <<"Z">>
    ELSE IF c = "ß" THEN <<"S", "S">> ELSE <<c>>

RECURSIVE Upper(_)
Upper(s) == IF s = <<>> THEN <<>> ELSE UpperChar(Head(s)) \o Upper(Tail(s))

\* str.replace(" ", "")
RemoveSpaces(s) == SelectSeq(s, LAMBDA c : c # " ")

\* [0-9]{2}[A-Z]{5}[0-9]{4}[A-Z]{1}[1-9A-Z]{1}[Z]{1}[0-9A-Z]{1}
GstPatternClass(i) ==
    IF i \in 1..2 THEN Digit
    ELSE IF i \in 3..7 THEN UpperLetter
    ELSE IF i \in 8..11 THEN Digit
    ELSE IF i = 12 THEN UpperLetter
    ELSE IF i = 13 THEN NonZeroDigit \cup UpperLetter
    ELSE IF i = 14 THEN {"Z"}
    ELSE Digit \cup UpperLetter

GstLength == 15

\* re.match(r'^...$', s): the 15 characters from the start, and then the end of
\* the string or a newline that ends the string
GstPatternMatches(s) ==
    /\ Len(s) >= GstLength
    /\ \A i \in 1..GstLength : s[i] \in GstPatternClass(i)
    /\ \/ Len(s) = GstLength
       \/ Len(s) = GstLength + 1 /\ s[GstLength + 1] = "\n"

\* mutant: no length test before the pattern
GstLengthAny(cleaned) == TRUE

\* len(gst_number) != 15 (gst_verifier.py 57)
GstLengthOk(cleaned) == Len(cleaned) = GstLength

\* GSTVerifier.validate_gst_format (gst_verifier.py 48-70)
ValidateGstFormat(gst_number) ==
    IF gst_number = <<>> THEN FALSE
    ELSE LET cleaned == Upper(RemoveSpaces(gst_number))
         IN  IF ~GstLengthOk(cleaned) THEN FALSE ELSE GstPatternMatches(cleaned)

\* validate_gst_number (fintel_api_fixed.py 646-656): the 'valid' key
ValidateGstNumber(gst_number) == GstPatternMatches(gst_number)

GstChars == <<"2", "2", "A", "A", "A", "A", "A", "0", "0", "0", "0", "A", "1", "Z", "5">>

MaxSpaces == 1      \* spaces put into an input string

\* the canonical number with other characters at some positions
GstVariants ==
    { [GstChars EXCEPT ![1] = c1, ![3] = c3, ![13] = c13, ![14] = c14, ![15] = c15] :
        c1 \in {"2", "A"}, c3 \in {"A", "a"}, c13 \in {"0", "1", "A", "-"},
        c14 \in {"Z", "z", "A"}, c15 \in {"5", "A", " "} }

InsertAt(s, p, c) == SubSeq(s, 1, p) \o <<c>> \o SubSeq(s, p + 1, Len(s))

RECURSIVE WithSpaces(_, _)
WithSpaces(S, n) ==
    IF n = 0 THEN S
    ELSE S \cup WithSpaces({InsertAt(s, p, " ") : s \in S, p \in {0, 2, 7, 15}}, n - 1)

\* the inputs: variants, with spaces inside, cut short or with a character more
GstInputs ==
    LET base == GstVariants
    IN  WithSpaces(base, MaxSpaces)
        \cup {SubSeq(s, 1, Len(s) - 1) : s \in base}
        \cup {SubSeq(s, 1, 5) \o <<"ß">> \o SubSeq(s, 8, Len(s)) : s \in base}
        \cup {[s EXCEPT ![7] = "ß"] : s \in base}
        \cup {s \o <<c>> : s \in base, c \in {"\n", "5"}}
        \cup {<<>>}

ApplyValidateGstFormat ==
    /\ gstCall[1].fn = "none"
    /\ gstCall' = <<[gstCall[1] EXCEPT !.fn = "validate_gst_format",
                                      !.result = ValidateGstFormat(gstCall[1].arg)]>>
    /\ UNCHANGED <<storeVars, pending, lastRun, now, reqs, scoreCall, viewVars>>

ApplyValidateGstNumber ==
    /\ gstCall[1].fn = "none"
    /\ gstCall' = <<[gstCall[1] EXCEPT !.fn = "validate_gst_number",
                                      !.result = ValidateGstNumber(gstCall[1].arg)]>>
    /\ UNCHANGED <<storeVars, pending, lastRun, now, reqs, scoreCall, viewVars>>

InitGst ==
    /\ invoices = <<>> /\ vendors = {} /\ anomalies = <<>>
    /\ pending = <<>> /\ lastRun = <<>>
    /\ now = [day |-> 0, tod |-> 0]
    /\ reqs = [r \in 1..MaxRequests |-> IdleRequest]
    /\ scoreCall = NoCall /\ trendsView = NoCall /\ anomaliesView = NoCall
    /\ uploadView = NoCall /\ historyView = NoCall
    /\ \E s \in GstInputs : gstCall = <<[fn |-> "none", arg |-> s, result |-> FALSE]>>

NextGst == ApplyValidateGstFormat \/ ApplyValidateGstNumber

SpecGst == InitGst /\ [][NextGst]_vars

\* the pattern as the specification words it: 2 digits, 5 letters, 4 digits,
\* 1 letter, 1 alphanumeric, 'Z', 1 alphanumeric, upper case
WordedPatternClass(i) ==
    IF i \in 1..2 THEN Digit
    ELSE IF i \in 3..7 THEN UpperLetter
    ELSE IF i \in 8..11 THEN Digit
    ELSE IF i = 12 THEN UpperLetter
    ELSE IF i = 14 THEN {"Z"}
    ELSE Digit \cup UpperLetter

FormatCalled == gstCall # NoCall /\ gstCall[1].fn = "validate_gst_format"

TotalChecks == 12

\* HSN_SAC_DATABASE (fintel_api_fixed.py 87-96)
HsnSacDatabase == {"8517", "8471", "9403", "7326", "3926", "8443", "4901", "9983"}

\* The scorer's totals are whole currency units, except the sample 10^9, which
\* stands for 10^17, a total beyond 2^53.  The rounding of amount / 1.18,
\* base_amount * 0.18 and their sum in binary64 stays below 10^-6 for a total
\* below 10^9; for 10^17 expected_total is 10^17 + 16
ReconstructionIsOff(total_amount) == total_amount = 1000000000

\* check_arithmetic_accuracy (fintel_api_fixed.py 658-678), in 1/118 of a
\* currency unit: base_amount = amount / 1.18, expected_gst = base_amount * 0.18
CheckArithmeticAccuracy(invoice) ==
    IF TruthyNum(invoice.total_amount)
    THEN IF ReconstructionIsOff(invoice.total_amount) THEN FALSE
         ELSE LET amount == invoice.total_amount * 118
                  base_amount == invoice.total_amount * 100
                  expected_gst == invoice.total_amount * 18
                  expected_total == base_amount + expected_gst
              IN  Abs(amount - expected_total) < 1 * 118
    ELSE FALSE

MarketAverage == 25000

\* analyze_market_prices (fintel_api_fixed.py 680-702): is_outlier of each item;
\* abs((amount - market_avg) / market_avg * 100) > 50, which is
\* 2 * |amount - market_avg| > market_avg
AnalyzeMarketPrices(enhanced, invoice) ==
    IF TruthyList(enhanced.item_descriptions) /\ TruthyNum(invoice.total_amount)
    THEN [i \in 1..Len(enhanced.item_descriptions) |->
            2 * Abs(invoice.total_amount - MarketAverage) > MarketAverage]
    ELSE <<>>

\* basic field checks (552-555): 1 point for each field that is truthy
BasicFieldPoints(invoice) ==
    2 * ( (IF Truthy(invoice.invoice_number) THEN 1 ELSE 0)
        + (IF TruthyNum(invoice.total_amount) THEN 1 ELSE 0)
        + (IF Truthy(invoice.invoice_date) THEN 1 ELSE 0)
        + (IF Truthy(invoice.vendor_name) THEN 1 ELSE 0)
        + (IF TruthyList(invoice.gst_numbers) THEN 1 ELSE 0) )

\* GST validation (565-571): 0.5 point for each number that validates
GstPoints(gst_numbers) ==
    Cardinality({i \in 1..Len(gst_numbers) : ValidateGstNumber(gst_numbers[i])})

\* HSN validation (573-583): 1 point at the first code of the table, then break
HsnPoints(codes) == IF \E i \in 1..Len(codes) : codes[i] \in HsnSacDatabase THEN 2 ELSE 0

ChecksPassed(invoice, enhanced) ==
    BasicFieldPoints(invoice)
    + (IF TruthyList(enhanced.hsn_sac_codes) \/ TruthyList(enhanced.item_descriptions)
       THEN 2 ELSE 0)
    + (IF invoice.ocr_confidence >= 80 THEN 2 ELSE 0)
    + GstPoints(invoice.gst_numbers)
    + HsnPoints(enhanced.hsn_sac_codes)
    + (IF CheckArithmeticAccuracy(invoice) THEN 2 ELSE 0)
    + 2
    + (IF \A i \in 1..Len(AnalyzeMarketPrices(enhanced, invoice)) :
             ~AnalyzeMarketPrices(enhanced, invoice)[i]
       THEN 2 ELSE 0)

\* compliance_score = checks_passed / total_checks * 100, as the fraction
\* num / den; score >= t is num >= t * den
ScoreNum(halfPoints) == halfPoints * 100
ScoreDen == 2 * TotalChecks

\* mutant: the lower bounds are exclusive
ScoreAbove(halfPoints, t) == ScoreNum(halfPoints) > t * ScoreDen

ScoreAtLeast(halfPoints, t) == ScoreNum(halfPoints) >= t * ScoreDen

\* status and risk (602-618)
Tier(halfPoints) ==
    IF ScoreAtLeast(halfPoints, 90)
    THEN [compliance_status |-> "Excellent", risk_level |-> "Low Risk", risk_score |-> 10]
    ELSE IF ScoreAtLeast(halfPoints, 75)
    THEN [compliance_status |-> "Good", risk_level |-> "Low Risk", risk_score |-> 25]
    ELSE IF ScoreAtLeast(halfPoints, 60)
    THEN [compliance_status |-> "Fair", risk_level |-> "Medium Risk", risk_score |-> 50]
    ELSE [compliance_status |-> "Poor", risk_level |-> "High Risk", risk_score |-> 75]

MlAnomaly(ml) == ml # <<>> /\ ml[1].is_anomaly

\* mutant: the risk level of the tier is kept
WithMlRiskLevelKept(tier, ml) ==
    IF MlAnomaly(ml) THEN [tier EXCEPT !.risk_score = @ + 20] ELSE tier

\* ML risk (620-624)
WithMlRisk(tier, ml) ==
    IF MlAnomaly(ml)
    THEN [tier EXCEPT !.risk_score = @ + 20,
                      !.risk_level = IF tier.risk_score + 20 > 50 THEN "High Risk" ELSE @]
    ELSE tier

\* anomalies summary (626-633)
AnomalySummary(invoice, ml) ==
    (IF MlAnomaly(ml) THEN <<"ML anomaly detected">> ELSE <<>>)
    \o (IF invoice.ocr_confidence < 70 THEN <<"Low OCR confidence">> ELSE <<>>)
    \o (IF ~CheckArithmeticAccuracy(invoice) THEN <<"Arithmetic error">> ELSE <<>>)

ProcessCompleteCompliance(invoice, enhanced, ml) ==
    LET hp == ChecksPassed(invoice, enhanced)
        risk == WithMlRisk(Tier(hp), ml)
    IN  [ checks_passed2 |-> hp,
          total_checks |-> TotalChecks,
          score_num |-> ScoreNum(hp),
          score_den |-> ScoreDen,
          compliance_status |-> risk.compliance_status,
          risk_level |-> risk.risk_level,
          risk_score |-> risk.risk_score,
          arithmetic_ok |-> CheckArithmeticAccuracy(invoice),
          price_analysis |-> AnalyzeMarketPrices(enhanced, invoice),
          anomalies_detected |-> AnomalySummary(invoice, ml) ]

\* lists of at most n GST numbers, well formed or not
RECURSIVE GstLists(_)
GstLists(n) ==
    IF n = 0 THEN {<<>>}
    ELSE GstLists(n - 1)
         \cup {Append(l, g) : l \in {x \in GstLists(n - 1) : Len(x) = n - 1},
                              g \in {GstChars, [GstChars EXCEPT ![14] = "A"]}}

ScorerInvoices ==
    [ invoice_number : {None, "INV-1"},
      total_amount : {0, 10000, 25000, 1000000000},
      invoice_date : {None, "2024-01-15"},
      vendor_name : {None, "Acme"},
      gst_numbers : GstLists(MaxGstNumbers),
      ocr_confidence : {60, 75, 95} ]

ScorerEnhanced ==
    [ hsn_sac_codes : {<<>>, <<"1234">>, <<"1234", "8517">>},
      item_descriptions : {<<>>, <<"Laptop computer">>} ]

MlResults == {<<>>, <<[is_anomaly |-> TRUE]>>, <<[is_anomaly |-> FALSE]>>}

InitScore ==
    /\ invoices = <<>> /\ vendors = {} /\ anomalies = <<>>
    /\ pending = <<>> /\ lastRun = <<>>
    /\ now = [day |-> 0, tod |-> 0]
    /\ reqs = [r \in 1..MaxRequests |-> IdleRequest]
    /\ gstCall = NoCall /\ trendsView = NoCall /\ anomaliesView = NoCall
    /\ uploadView = NoCall /\ historyView = NoCall
    /\ \E invoice \in ScorerInvoices, enhanced \in ScorerEnhanced, ml \in MlResults :
          scoreCall = <<[invoice |-> invoice, enhanced |-> enhanced, ml |-> ml,
                         done |-> FALSE, result |-> <<>>]>>

ApplyProcessCompleteCompliance ==
    /\ ~scoreCall[1].done
    /\ scoreCall' = <<[scoreCall[1] EXCEPT
                          !.done = TRUE,
                          !.result = <<ProcessCompleteCompliance(scoreCall[1].invoice,
                                                                 scoreCall[1].enhanced,
                                                                 scoreCall[1].ml)>>]>>
    /\ UNCHANGED <<storeVars, pending, lastRun, now, reqs, gstCall, viewVars>>

NextScore == ApplyProcessCompleteCompliance

SpecScore == InitScore /\ [][NextScore]_vars

Scored == scoreCall # NoCall /\ scoreCall[1].done

\* every item of the checklist is awarded; the GST format item is its one point,
\* two well-formed numbers
AllChecksAwarded ==
    LET c == scoreCall[1]
    IN  /\ BasicFieldPoints(c.invoice) = 10
        /\ TruthyList(c.enhanced.hsn_sac_codes) \/ TruthyList(c.enhanced.item_descriptions)
        /\ c.invoice.ocr_confidence >= 80
        /\ GstPoints(c.invoice.gst_numbers) >= 2
        /\ HsnPoints(c.enhanced.hsn_sac_codes) = 2
        /\ c.result[1].arithmetic_ok
        /\ \A i \in 1..Len(c.result[1].price_analysis) : ~c.result[1].price_analysis[i]

\* C7: for every input the points earned never exceed 12 and the score is within
\* [0, 100]; when every checklist item is awarded the score is exactly 100.
C7_ScoreWithinBounds ==
    Scored =>
        LET r == scoreCall[1].result[1]
        IN  /\ r.checks_passed2 <= 2 * TotalChecks
            /\ 0 <= r.score_num /\ r.score_num <= 100 * r.score_den
            /\ AllChecksAwarded => r.score_num = 100 * r.score_den

(***************************************************************************)
(* The oracles (gst_verifier.py, hsn_sac_verifier.py).  The characters of   *)
(* the sample strings are given by tables; an oracle's behaviour during a   *)
(* request is an input of the request.                                      *)
(***************************************************************************)
GstBadFormat == "22AAAAA0000A1A5"
GstShort == "22AAAAA"

\* the characters of a sample GST string
CharsOf(g) ==
    IF g = GstA THEN GstChars
    ELSE IF g = GstBadFormat THEN [GstChars EXCEPT ![14] = "A"]
    ELSE IF g = GstShort THEN SubSeq(GstChars, 1, 7)
    ELSE <<>>

\* re.search(gst_pattern, cleaned): the start positions of a match
GstPatternStarts(s) ==
    {p \in 1..(Len(s) - GstLength + 1) :
        \A i \in 1..GstLength : s[p + i - 1] \in GstPatternClass(i)}

\* GSTVerifier.clean_gst_number (gst_verifier.py 16-46): <<cleaned>> or None
CleanGstNumber(gst_number) ==
    IF gst_number = <<>> THEN <<>>
    ELSE LET cleaned == Upper(RemoveSpaces(gst_number))
         IN  IF Len(cleaned) = GstLength THEN <<cleaned>>
             ELSE IF Len(cleaned) > GstLength
             THEN IF GstPatternStarts(cleaned) # {}
                  THEN LET p == CHOOSE q \in GstPatternStarts(cleaned) :
                                   \A q2 \in GstPatternStarts(cleaned) : q <= q2
                       IN  <<SubSeq(cleaned, p, p + GstLength - 1)>>
                  ELSE <<>>
             ELSE <<>>

\* what requests.get to the GST oracle does (gst_verifier.py 109-190)
GstOracleOutcomes ==
    {"active", "inactive", "not_found", "status_404", "status_429", "status_500",
     "timeout", "unreachable"}
GstOracleUnreachable == {"timeout", "unreachable"}
GstOracleRejects == {"inactive", "not_found", "status_404"}

\* a verification result: is_valid is True, False or None; a key the dictionary
\* lacks reads as None, which is falsy
GstResult(success, is_valid, is_active, error) ==
    [success |-> success, is_valid |-> is_valid, is_active |-> is_active, error |-> error]

\* GSTVerifier.verify_gst (gst_verifier.py 72-190)
VerifyGst(gst_number, outcome) ==
    IF CleanGstNumber(gst_number) = <<>>
    THEN GstResult(FALSE, "False", FALSE, "Invalid GST")
    ELSE IF ~ValidateGstFormat(CleanGstNumber(gst_number)[1])
    THEN GstResult(FALSE, "False", FALSE, "Invalid GST format")
    ELSE IF outcome = "active" THEN GstResult(TRUE, "True", TRUE, "")
    ELSE IF outcome = "inactive" THEN GstResult(TRUE, "True", FALSE, "")
    ELSE IF outcome = "not_found"
    THEN GstResult(FALSE, "False", FALSE, "GST not found in government database")
    ELSE IF outcome = "status_404"
    THEN GstResult(FALSE, "False", FALSE, "GST number not found")
    ELSE IF outcome = "status_429"
    THEN GstResult(FALSE, "None", FALSE, "API rate limit exceeded")
    ELSE IF outcome = "status_500" THEN GstResult(FALSE, "None", FALSE, "API error")
    ELSE IF outcome = "timeout" THEN GstResult(FALSE, "None", FALSE, "API timeout")
    ELSE GstResult(FALSE, "None", FALSE, "Verification failed")

\* the digits of a sample HSN/SAC code: ''.join(filter(str.isdigit, str(code)))
CodeDigits(code) ==
    IF code = "8517" THEN <<"8", "5", "1", "7">>
    ELSE IF code = "8471" THEN <<"8", "4", "7", "1">>
    ELSE IF code = "998314" THEN <<"9", "9", "8", "3", "1", "4">>
    ELSE IF code = "85171" THEN <<"8", "5", "1", "7", "1">>
    ELSE IF code = "85" THEN <<"8", "5">>
    ELSE <<>>

\* HSNSACVerifier.detect_code_type (hsn_sac_verifier.py 27-47)
DetectCodeType(code) ==
    LET clean_code == CodeDigits(code)
    IN  IF Len(clean_code) = 6 /\ SubSeq(clean_code, 1, 2) = <<"9", "9">> THEN "SAC"
        ELSE IF Len(clean_code) \in {4, 6, 8} THEN "HSN"
        ELSE "UNKNOWN"

\* what requests.get to the HSN/SAC oracle does (hsn_sac_verifier.py 72-121)
HsnOracleOutcomes == {"found", "status_404", "status_500", "timeout", "unreachable"}
HsnOracleUnreachable == {"status_500", "timeout", "unreachable"}

HsnMinDigits == 4

\* a verification result; gst_rate is gst_rates.total of a code that was found
HsnResult(code, success, is_valid, rate) ==
    [code |-> code, success |-> success, is_valid |-> is_valid, gst_rate |-> rate]

\* HSNSACVerifier.verify_hsn_code / verify_sac_code (hsn_sac_verifier.py 49-195):
\* the two differ in the URL only
VerifyHsnCode(code, outcome, rate) ==
    IF Len(CodeDigits(code)) < HsnMinDigits THEN HsnResult(code, FALSE, FALSE, 0)
    ELSE IF outcome = "found" THEN HsnResult(code, TRUE, TRUE, rate)
    ELSE IF outcome = "status_404" THEN HsnResult(code, FALSE, FALSE, 0)
    ELSE IF outcome = "status_500" THEN HsnResult(code, FALSE, FALSE, 0)
    ELSE HsnResult(code, FALSE, FALSE, 0)

\* HSNSACVerifier.verify_code (hsn_sac_verifier.py 197-233)
VerifyCode(code, outcome, rate) ==
    IF DetectCodeType(code) \in {"SAC", "HSN"} THEN VerifyHsnCode(code, outcome, rate)
    ELSE IF VerifyHsnCode(code, outcome, rate).success
    THEN VerifyHsnCode(code, outcome, rate)
    ELSE HsnResult(code, FALSE, FALSE, 0)

\* the line items that carry a code (hsn_sac_verifier.py 328-331)
CodedItems(line_items) ==
    SelectSeq(line_items, LAMBDA item : Truthy(item.hsn_code) /\ item.hsn_code # "Unknown")

\* abs(float(extracted_rate) - float(actual_rate)) < 0.5, rates in whole percents
RateMatches(extracted_rate, actual_rate) == 2 * Abs(extracted_rate - actual_rate) < 1

\* HSNSACVerifier.verify_with_line_items (hsn_sac_verifier.py 315-371)
VerifyWithLineItems(line_items, outcome, rate) ==
    LET items == CodedItems(line_items)
        results == [i \in 1..Len(items) |-> VerifyCode(items[i].hsn_code, outcome, rate)]
        mismatched == {i \in 1..Len(items) :
                          /\ TruthyNum(items[i].gst_rate)
                          /\ results[i].is_valid
                          /\ ~RateMatches(items[i].gst_rate, results[i].gst_rate)}
    IN  [verifications |-> results, rate_mismatches |-> Cardinality(mismatched)]

(***************************************************************************)
(* upload_invoice_complete (fintel_api_fixed.py 229-474), one request run   *)
(* to its response                                                          *)
(***************************************************************************)
MaxUploads == 2         \* upload requests in a run of the whole handler

OcrConfidence == 95

\* GeminiVisionOCR.process_invoice (gemini_vision_ocr.py 183-289): a failure is a
\* dictionary with the keys success and error only; the GST numbers kept are
\* those of 15 characters once cleaned (226-236), which the samples already are
ProcessInvoice(file) ==
    IF file.ocr = "convert_failed"
    THEN [success |-> FALSE, error |-> "Failed to convert PDF to images"]
    ELSE IF file.ocr = "no_data"
    THEN [success |-> FALSE, error |-> "Failed to extract data from invoice"]
    ELSE [ success |-> TRUE,
           raw_text |-> file.raw_text_len,
           confidence |-> OcrConfidence,
           structured_data |->
             [ invoice_number |-> file.invoice_number,
               vendor_name |-> file.vendor_name,
               invoice_date |-> file.invoice_date,
               total_amount |-> file.total_amount,
               gst_numbers |-> SelectSeq(file.gst_numbers,
                                  LAMBDA g : Len(Upper(RemoveSpaces(CharsOf(g)))) = GstLength),
               line_items |-> file.line_items ] ]

\* `if not ocr_result` (249): a dictionary is falsy when it has no key
TruthyDict(d) == DOMAIN d # {}

\* mutant: the keys are read with a default
OcrKeyErrorNever(ocr_result) == FALSE

\* ocr_result['raw_text'], ['structured_data'], ['confidence'] (253-271) raise
\* KeyError on a dictionary without the key
OcrKeyError(ocr_result) ==
    {"raw_text", "structured_data", "confidence"} \ DOMAIN ocr_result # {}

\* what is read from ocr_result where it has the keys
StructuredData(ocr_result) ==
    IF "structured_data" \in DOMAIN ocr_result THEN ocr_result.structured_data
    ELSE [ invoice_number |-> "Unknown", vendor_name |-> "Unknown",
           invoice_date |-> "Unknown", total_amount |-> 0, gst_numbers |-> <<>>,
           line_items |-> <<>> ]

\* GST verification (274-308): one call of the oracle per extracted number
UploadGstVerification(gst_numbers, outcome) ==
    IF TruthyList(gst_numbers) /\ Len(gst_numbers) > 0
    THEN [i \in 1..Len(gst_numbers) |-> VerifyGst(CharsOf(gst_numbers[i]), outcome)]
    ELSE <<GstResult(FALSE, "False", FALSE, "GST number not found in invoice")>>

\* verify_gst sends the request (gst_verifier.py 109) when the number passed the
\* cleaning and the format test (76-95)
GstRequestSent(gst_number) ==
    /\ CleanGstNumber(gst_number) # <<>>
    /\ ValidateGstFormat(CleanGstNumber(gst_number)[1])

\* the loop of lines 278-280: the arguments of the verify_gst calls, in order
UploadVerifyGstCalls(gst_numbers) ==
    IF TruthyList(gst_numbers) /\ Len(gst_numbers) > 0 THEN gst_numbers ELSE <<>>

\* the numbers for which a request went to the GST oracle, in order
UploadGstRequests(gst_numbers) ==
    SelectSeq(UploadVerifyGstCalls(gst_numbers), LAMBDA g : GstRequestSent(CharsOf(g)))

\* HSN/SAC verification (310-343): by line items, else by the extracted codes
UploadHsnVerification(line_items, hsn_codes, outcome, rate) ==
    IF TruthyList(line_items) /\ Len(line_items) > 0
    THEN VerifyWithLineItems(line_items, outcome, rate)
    ELSE [ verifications |->
             LET codes == SelectSeq(hsn_codes, LAMBDA c : Truthy(c) /\ c # "Unknown")
             IN  [i \in 1..Len(codes) |-> VerifyCode(codes[i], outcome, rate)],
           rate_mismatches |-> 0 ]

\* len(str(int(amount)))
RECURSIVE DigitCount(_)
DigitCount(n) == IF n < 10 THEN 1 ELSE 1 + DigitCount(n \div 10)

\* pd.to_datetime(invoice_date): dayofweek, day, month of the sample dates; a
\* string that is no date raises, and the except clause gives zeros
DateFeatures(invoice_date) ==
    IF invoice_date = "15-01-2024" THEN <<0, 15, 1>>
    ELSE IF invoice_date = "20-03-2024" THEN <<2, 20, 3>>
    ELSE <<0, 0, 0>>

MlMinFeatures == 16

\* `return features if len(features) >= 16 else None` (738)
MlFeaturesReturned(features) == IF Len(features) >= MlMinFeatures THEN <<features>> ELSE <<>>

\* the vector extract_ml_features builds (707-736)
MlFeatureVector(invoice_data) ==
    (IF TruthyNum(invoice_data.total_amount)
     THEN <<invoice_data.total_amount, invoice_data.total_amount % 1000,
            DigitCount(invoice_data.total_amount)>>
     ELSE <<0, 0, 0>>)
    \o (IF Truthy(invoice_data.invoice_date)
        THEN DateFeatures(invoice_data.invoice_date) ELSE <<0, 0, 0>>)
    \o << invoice_data.ocr_confidence,
          invoice_data.raw_text,
          Len(invoice_data.gst_numbers),
          IF Truthy(invoice_data.vendor_name) THEN 1 ELSE 0,
          IF Truthy(invoice_data.invoice_number) THEN 1 ELSE 0,
          IF Truthy(invoice_data.invoice_date) THEN 1 ELSE 0,
          IF TruthyNum(invoice_data.total_amount) THEN 1 ELSE 0,
          0 >>

\* extract_ml_features (704-742): <<vector>> or None
ExtractMlFeatures(invoice_data) == MlFeaturesReturned(MlFeatureVector(invoice_data))

\* the locals of the handler up to process_complete_compliance (253-352)
UploadLocals(file) ==
    LET ocr_result == ProcessInvoice(file)
        structured == StructuredData(ocr_result)
        invoice_data ==
            [ invoice_number |-> structured.invoice_number,
              total_amount |-> structured.total_amount,
              invoice_date |-> structured.invoice_date,
              vendor_name |-> structured.vendor_name,
              gst_numbers |-> structured.gst_numbers,
              ocr_confidence |-> IF "confidence" \in DOMAIN ocr_result
                                 THEN ocr_result.confidence ELSE 0,
              raw_text |-> IF "raw_text" \in DOMAIN ocr_result
                           THEN ocr_result.raw_text ELSE 0 ]
        enhanced_data == [ hsn_sac_codes |-> file.hsn_sac_codes,
                           item_descriptions |-> file.item_descriptions ]
        gst_verification == UploadGstVerification(invoice_data.gst_numbers, file.gst_oracle)
        hsn == UploadHsnVerification(structured.line_items, enhanced_data.hsn_sac_codes,
                                     file.hsn_oracle, file.hsn_rate)
        ml_features == ExtractMlFeatures(invoice_data)
        ml_result == IF TruthyList(ml_features)
                     THEN <<[is_anomaly |-> file.ml_answer]>> ELSE <<>>
        scored == [invoice_data EXCEPT
                      !.gst_numbers = [i \in 1..Len(@) |-> CharsOf(@[i])]]
    IN  [ invoice_data |-> invoice_data,
          enhanced_data |-> enhanced_data,
          verify_gst_calls |-> UploadVerifyGstCalls(invoice_data.gst_numbers),
          gst_requests |-> UploadGstRequests(invoice_data.gst_numbers),
          ml_features |-> ml_features,
          ml_result |-> ml_result,
          compliance_results |-> ProcessCompleteCompliance(scored, enhanced_data, ml_result),
          storage_data |->
            [ invoice_number |-> invoice_data.invoice_number,
              vendor_name |-> invoice_data.vendor_name,
              gst_numbers |-> invoice_data.gst_numbers,
              total_amount |-> invoice_data.total_amount,
              hsn_sac_codes |-> enhanced_data.hsn_sac_codes,
              gst_verification |-> gst_verification,
              gst_missing |-> ~(TruthyList(invoice_data.gst_numbers)
                                /\ Len(invoice_data.gst_numbers) > 0),
              hsn_sac_verification |-> hsn.verifications,
              rate_mismatches |-> hsn.rate_mismatches ] ]

\* the handler returns before line 253, or raises there
UploadFailsAtOcr(file) ==
    ~TruthyDict(ProcessInvoice(file)) \/ OcrKeyError(ProcessInvoice(file))

UploadsDone == IF uploadView = NoCall THEN 0 ELSE uploadView[1].seq

\* the failure response of lines 250 and 474: nothing was scored or stored
UploadInvoiceFails(file) ==
    /\ UploadsDone < MaxUploads
    /\ UploadFailsAtOcr(file)
    /\ uploadView' = <<[ seq |-> UploadsDone + 1, file |-> file,
                         scored |-> FALSE, classified |-> FALSE,
                         locals |-> <<>>, db_anomalies |-> <<>>,
                         response |-> [success |-> FALSE] ]>>
    /\ UNCHANGED <<storeVars, pending, lastRun, now, reqs, pureVars,
                   trendsView, anomaliesView, historyView>>

\* the whole handler on a file whose OCR gave data: verification, ML, scoring,
\* store_invoice, detect_anomalies, response (253-468)
UploadInvoiceComplete(file) ==
    /\ UploadsDone < MaxUploads
    /\ pending = <<>>
    /\ ~UploadFailsAtOcr(file)
    /\ LET l == UploadLocals(file)
           id == NextId(invoices)
           doc == InvoiceDoc(l.storage_data, id, now)
           stored == Append(invoices, doc)
       IN  /\ invoices' = stored
           /\ vendors' = UpdateVendorStats(vendors, doc, now)
           /\ \E result \in DetectResults(stored, l.storage_data, StrOf(id)) :
                 /\ anomalies' = anomalies \o PersistAll(result, l.storage_data, StrOf(id), now)
                 /\ lastRun' = <<[data |-> l.storage_data, invoice_id |-> StrOf(id),
                                  result |-> result]>>
                 /\ uploadView' =
                      <<[ seq |-> UploadsDone + 1, file |-> file,
                          scored |-> TRUE, classified |-> TruthyList(l.ml_features),
                          locals |-> <<l>>, db_anomalies |-> result,
                          response |-> [success |-> TRUE] ]>>
    /\ UNCHANGED <<pending, now, reqs, pureVars, trendsView, anomaliesView, historyView>>

\* a file: what the OCR reads from it, and what the oracles and the classifier
\* answer while it is processed
UploadFile(ocr, number, amount, gsts, gst_oracle, hsn, line_items, hsn_oracle, ml_answer) ==
    [ ocr |-> ocr, invoice_number |-> number, vendor_name |-> "Acme",
      invoice_date |-> "15-01-2024", total_amount |-> amount, raw_text_len |-> 120,
      gst_numbers |-> gsts, hsn_sac_codes |-> hsn, item_descriptions |-> <<>>,
      line_items |-> line_items, gst_oracle |-> gst_oracle,
      hsn_oracle |-> hsn_oracle, hsn_rate |-> 18, ml_answer |-> ml_answer ]

UploadFiles ==
    { UploadFile(ocr, "INV-1", 10000, <<GstA>>, "active", <<>>, <<>>, "found", FALSE) :
        ocr \in {"ok", "convert_failed", "no_data"} }
    \cup { UploadFile("ok", "INV-1", 10000, gsts, o, <<>>, <<>>, "found", FALSE) :
             gsts \in {<<>>, <<GstA>>, <<GstBadFormat>>, <<GstShort, GstA>>},
             o \in GstOracleOutcomes }
    \cup { UploadFile("ok", "INV-1", 10000, <<GstA, GstA>>, o, <<>>, <<>>, "found", FALSE) :
             o \in {"active", "timeout"} }
    \cup { UploadFile("ok", "INV-1", 10000, <<GstA>>, "active", hsn, <<>>, o, FALSE) :
             hsn \in {<<"8517">>, <<"998314">>, <<"85">>, <<"85171">>, <<"Unknown", "8471">>},
             o \in HsnOracleOutcomes }
    \cup { UploadFile("ok", "INV-1", 10000, <<GstA>>, "active", <<"8517">>,
                      <<[hsn_code |-> "8517", gst_rate |-> r],
                        [hsn_code |-> "Unknown", gst_rate |-> 18]>>, o, FALSE) :
             r \in {0, 5, 18}, o \in HsnOracleOutcomes }
    \cup { UploadFile("ok", number, amount, <<GstA>>, "active", <<>>, <<>>, "found", ml) :
             number \in {"INV-1", "INV-2"}, amount \in {0, 10000, 35000},
             ml \in BOOLEAN }

NextUpload ==
    \/ \E file \in UploadFiles : UploadInvoiceFails(file)
    \/ \E file \in UploadFiles : UploadInvoiceComplete(file)

SpecUpload == Init /\ [][NextUpload]_vars

(***************************************************************************)
(* Properties of the upload handler                                        *)
(***************************************************************************)
\* the last upload ran to the success response
UploadSucceeded == uploadView # NoCall /\ uploadView[1].response.success

\* the primary GST number of the last upload was sent to the oracle
PrimaryGstSentToOracle ==
    LET gsts == uploadView[1].locals[1].invoice_data.gst_numbers
    IN  /\ gsts # <<>>
        /\ CleanGstNumber(CharsOf(gsts[1])) # <<>>
        /\ ValidateGstFormat(CleanGstNumber(CharsOf(gsts[1]))[1])

\* C11: when the GST oracle call for the primary number times out or is
\* unreachable, the detector run emits no INVALID_GST; when the oracle was
\* reached and reported not-found or not-active, it emits INVALID_GST.
C11_TimeoutIsNotInvalidGst ==
    (UploadSucceeded /\ PrimaryGstSentToOracle) =>
        LET outcome == uploadView[1].file.gst_oracle
            types == TypesOf(uploadView[1].db_anomalies)
        IN  /\ outcome \in GstOracleUnreachable => "INVALID_GST" \notin types
            /\ outcome \in GstOracleRejects => "INVALID_GST" \in types

\* the verified codes of the last upload that were sent to the HSN/SAC oracle
CodesSentToOracle ==
    LET vers == uploadView[1].locals[1].storage_data.hsn_sac_verification
    IN  {i \in 1..Len(vers) : Len(CodeDigits(vers[i].code)) >= HsnMinDigits}

\* C12: a detector run emits INVALID_HSN_SAC only for the codes the oracle was
\* reached for and reported not found: none for a code whose oracle call failed
\* by network error, timeout or an HTTP error other than 404.
C12_HsnFailureIsNotInvalid ==
    UploadSucceeded =>
        Cardinality(EntriesOf(uploadView[1].db_anomalies, "INVALID_HSN_SAC"))
            = IF uploadView[1].file.hsn_oracle = "status_404"
              THEN Cardinality(CodesSentToOracle) ELSE 0

\* the composition of the feature vector: amount, amount mod 1000, digit count,
\* day of week, day, month, OCR confidence, raw-text length, GST-number count,
\* 4 presence flags, 1 reserved slot
ContractedFeatureCount == 3 + 3 + 3 + 4 + 1

\* C13: for every invoice the upload pipeline processes, the feature vector of
\* the contracted composition is supplied to the anomaly classifier, and the
\* classifier's isAnomaly answer is the signal the scorer receives.
C13_FeaturesReachClassifier ==
    UploadSucceeded =>
        LET l == uploadView[1].locals[1]
        IN  /\ Len(MlFeatureVector(l.invoice_data)) = ContractedFeatureCount
            /\ uploadView[1].classified
            /\ l.ml_features = <<MlFeatureVector(l.invoice_data)>>
            /\ l.ml_result = <<[is_anomaly |-> uploadView[1].file.ml_answer]>>

\* C18: an upload whose OCR step fails (the PDF conversion fails, or no page
\* yields data) ends with the response success = false, without a call of the
\* scorer, and leaves the invoices, vendors and anomalies collections unchanged.
C18_OcrFailureStep ==
    (uploadView' # uploadView /\ uploadView'[1].file.ocr # "ok") =>
        /\ ~uploadView'[1].response.success
        /\ ~uploadView'[1].scored
        /\ storeVars' = storeVars

C18_OcrFailureWritesNothing == [][C18_OcrFailureStep]_vars

\* a failed upload after a stored one
C18_Witness ==
    /\ uploadView # NoCall
    /\ uploadView[1].file.ocr = "no_data"
    /\ ~uploadView[1].response.success
    /\ Len(invoices) = 1
    /\ anomalies # <<>>

(***************************************************************************)
(* Properties of the detector's effect on the store                        *)
(***************************************************************************)
\* C14: under any interleaving of concurrent uploads, every invoice inserted
\* into the invoices collection has its detector run before its request ends:
\* no request ends with its invoice stored and no detector run for it.
C14_DetectorRunsForEveryInsert ==
    \A r \in Requests :
        (reqs[r].pc \in {"done", "failed"} /\ reqs[r].invoice_id # NoId) =>
            /\ \E d \in Range(invoices) : StrOf(d._id) = reqs[r].invoice_id
            /\ reqs[r].pc = "done"
            /\ reqs[r].stored = Len(reqs[r].result)

\* the string id names a document of the collection
IdentifiesInvoice(id, invs) == \E d \in Range(invs) : StrOf(d._id) = id

\* the anomaly records a step creates reference invoices stored before the step
C15_CreationStep ==
    \A i \in (Len(anomalies) + 1)..Len(anomalies') :
        /\ IdentifiesInvoice(anomalies'[i].invoiceId, invoices)
        /\ anomalies'[i].relatedInvoiceId # NoId =>
              IdentifiesInvoice(anomalies'[i].relatedInvoiceId, invoices)

\* C15: every anomaly record's owning invoice id, and its related-invoice id when
\* present, identify an invoice record that was in the invoices collection when
\* the anomaly record was created.
C15_AnomalyReferencesExist == [][C15_CreationStep]_vars

\* an anomaly record with a related invoice, created while another request runs
C15_Witness ==
    /\ \E i \in 1..Len(anomalies) :
          /\ anomalies[i].relatedInvoiceId # NoId
          /\ anomalies[i].relatedInvoiceId # anomalies[i].invoiceId
    /\ \E r \in Requests : reqs[r].pc \notin {"idle", "done", "failed"}

\* the anomaly records an invoice owns
OwnedBy(anoms, id) == SelectSeq(anoms, LAMBDA a : a.invoiceId = id)

\* a step that is a detector run: the upload leaves detect_anomalies
C16_DetectorStep ==
    (pending # <<>> /\ pending' = <<>>) =>
        LET result == lastRun'[1].result
            n == Len(anomalies)
        IN  /\ invoices' = invoices
            /\ vendors' = vendors
            /\ Len(anomalies') = n + Len(result)
            /\ SubSeq(anomalies', 1, n) = anomalies
            /\ \A k \in 1..Len(result) :
                  /\ anomalies'[n + k].invoiceId = pending[1].invoice_id
                  /\ anomalies'[n + k].anomalyType = result[k].type
            /\ \A d \in Range(invoices) :
                  StrOf(d._id) # pending[1].invoice_id =>
                      OwnedBy(anomalies', StrOf(d._id)) = OwnedBy(anomalies, StrOf(d._id))

\* C16: a detector run for an invoice changes the store only by appending anomaly
\* records owned by that invoice, one per entry of the list it returns; invoices,
\* vendors and the anomaly records of earlier invoices stay as they were.
C16_DetectorOnlyAppendsOwn == [][C16_DetectorStep]_vars

\* B was stored as a duplicate of A, which owns an anomaly of its own and none
\* for the duplicate
C16_Witness ==
    /\ RunIsLatest
    /\ Len(invoices) = 2
    /\ "DUPLICATE_INVOICE" \in TypesOf(lastRun[1].result)
    /\ OwnedBy(anomalies, StrOf(OidOf(1))) # <<>>
    /\ \A i \in 1..Len(anomalies) :
          anomalies[i].invoiceId = StrOf(OidOf(1)) =>
              anomalies[i].anomalyType # "DUPLICATE_INVOICE"

(***************************************************************************)
(* Missing and null fields: process_complete_compliance and                *)
(* detect_anomalies called on dictionaries in which a key is missing or    *)
(* holds None.  A TypeError ends the call.                                 *)
(***************************************************************************)
MaxPartialCalls == 1    \* detect_anomalies calls on a partial dictionary per run

FieldStatus == {"present", "missing", "null"}

\* the statuses of the keys: those the scorer reads in a comparison or a loop,
\* those the detector converts, the others present
ScorerStatuses ==
    [total_amount : {"present"}, vendor_name : {"present"},
     gst_numbers : FieldStatus, ocr_confidence : FieldStatus, hsn_sac_codes : FieldStatus]

DetectorStatuses ==
    [total_amount : FieldStatus, vendor_name : FieldStatus,
     gst_numbers : {"present"}, ocr_confidence : {"present"}, hsn_sac_codes : FieldStatus]

\* what dict.get(key) or dict.get(key, default) gives for a key that is missing
\* or None where the value is only tested for truth: a falsy value
PartialInvoice(st) ==
    [ invoice_number |-> "INV-1",
      total_amount |-> IF st.total_amount = "present" THEN 10000 ELSE 0,
      invoice_date |-> "15-01-2024",
      vendor_name |-> IF st.vendor_name = "present" THEN "Acme" ELSE None,
      gst_numbers |-> IF st.gst_numbers = "present" THEN <<GstChars>> ELSE <<>>,
      ocr_confidence |-> IF st.ocr_confidence = "present" THEN OcrConfidence ELSE 0 ]

PartialEnhanced(st) ==
    [ hsn_sac_codes |-> IF st.hsn_sac_codes = "present" THEN <<"8517">> ELSE <<>>,
      item_descriptions |-> <<>> ]

\* process_complete_compliance raises TypeError on a None that it compares with a
\* number (562: ocr_confidence >= 80) or iterates (567: gst_numbers, 575:
\* hsn_sac_codes); the default of get() applies to a missing key only
ScorerRaises(st) ==
    \/ st.ocr_confidence = "null"
    \/ st.gst_numbers = "null"
    \/ st.hsn_sac_codes = "null"

\* one call of process_complete_compliance(invoice_data, enhanced_data, None)
ScorePartial(st) ==
    /\ scoreCall = NoCall
    /\ scoreCall' =
         <<[ status |-> st, done |-> TRUE, raised |-> ScorerRaises(st),
             result |-> IF ScorerRaises(st) THEN <<>>
                        ELSE <<ProcessCompleteCompliance(PartialInvoice(st),
                                                         PartialEnhanced(st), <<>>)>> ]>>
    /\ UNCHANGED <<storeVars, pending, lastRun, now, reqs, gstCall, viewVars>>

\* the dictionary given to detect_anomalies
PartialData(st) ==
    [ invoice_number |-> "INV-1",
      vendor_name |-> PartialInvoice(st).vendor_name,
      gst_numbers |-> IF st.gst_numbers = "present" THEN <<GstA>> ELSE <<>>,
      total_amount |-> PartialInvoice(st).total_amount,
      hsn_sac_codes |-> PartialEnhanced(st).hsn_sac_codes,
      gst_verification |-> <<>>,
      gst_missing |-> FALSE,
      hsn_sac_verification |-> <<>>,
      rate_mismatches |-> 0 ]

\* the HSN loop reaches float(invoice_data.get('total_amount', 0)) (244)
HsnReachesAmount(invs, data, invoice_id) ==
    \E i \in 1..Min(HsnMaxCodes, Len(data.hsn_sac_codes)) :
        \E sim \in Limited(SimilarInvoices(invs, data.hsn_sac_codes[i], invoice_id), HsnLimit) :
            /\ Cardinality(sim) >= HsnMinSimilar
            /\ \E d \in sim : d.totalAmount > 0

\* detect_anomalies raises TypeError at float(None) (199, 244) when total_amount
\* is None and the vendor has stored invoices, or a code has enough of them
DetectRaises(invs, st, invoice_id) ==
    /\ st.total_amount = "null"
    /\ \/ /\ Truthy(PartialData(st).vendor_name)
          /\ PartialData(st).vendor_name # "Unknown"
          /\ VendorsStats(invs, PartialData(st).vendor_name) # <<>>
       \/ HsnReachesAmount(invs, PartialData(st), invoice_id)

PartialCallsDone ==
    IF lastRun # <<>> /\ "calls" \in DOMAIN lastRun[1] THEN lastRun[1].calls ELSE 0

\* one call of detect_anomalies(data, invoice_id) for the invoice stored last; an
\* exception leaves before the loop that stores the anomalies
DetectPartial(st) ==
    /\ pending = <<>>
    /\ invoices # <<>>
    /\ PartialCallsDone < MaxPartialCalls
    /\ LET id == StrOf(invoices[Len(invoices)]._id)
           data == PartialData(st)
       IN  IF DetectRaises(invoices, st, id)
           THEN /\ lastRun' = <<[data |-> data, invoice_id |-> id, result |-> <<>>,
                                 status |-> st, raised |-> TRUE,
                                 calls |-> PartialCallsDone + 1]>>
                /\ UNCHANGED anomalies
           ELSE \E result \in DetectResults(invoices, data, id) :
                   /\ anomalies' = anomalies \o PersistAll(result, data, id, now)
                   /\ lastRun' = <<[data |-> data, invoice_id |-> id, result |-> result,
                                    status |-> st, raised |-> FALSE,
                                    calls |-> PartialCallsDone + 1]>>
    /\ UNCHANGED <<invoices, vendors, pending, now, reqs, pureVars, viewVars>>

\* the uploads that fill the store before the calls
PartialInputs ==
    { InvoiceData("INV-1", "Acme", <<GstA>>, amount, <<"8517">>, TRUE, <<>>, 0) :
        amount \in {10000, 35000} }

\* the two functions are called on a store that uploads have filled
NoPartialCallYet == scoreCall = NoCall /\ PartialCallsDone = 0

PartialStoreInvoice(data) == NoPartialCallYet /\ StoreInvoice(data)
PartialDetectAnomalies == NoPartialCallYet /\ DetectAnomalies

NextPartial ==
    \/ \E data \in PartialInputs : PartialStoreInvoice(data)
    \/ PartialDetectAnomalies
    \/ \E st \in ScorerStatuses : ScorePartial(st)
    \/ \E st \in DetectorStatuses : DetectPartial(st)

SpecPartial == Init /\ [][NextPartial]_vars

\* C17: process_complete_compliance and detect_anomalies return without raising
\* for every input in which any subset of the fields is missing or null.
C17_NeverRaisesOnPartial ==
    /\ scoreCall # NoCall => ~scoreCall[1].raised
    /\ (lastRun # <<>> /\ "raised" \in DOMAIN lastRun[1]) => ~lastRun[1].raised

(***************************************************************************)
(* Properties of the status and risk mapping                               *)
(***************************************************************************)
\* the status, risk level and risk score the table gives a score num / den
TableRow(num, den) ==
    IF num >= 90 * den THEN <<"Excellent", "Low Risk", 10>>
    ELSE IF num >= 75 * den THEN <<"Good", "Low Risk", 25>>
    ELSE IF num >= 60 * den THEN <<"Fair", "Medium Risk", 50>>
    ELSE <<"Poor", "High Risk", 75>>

RowOf(r) == <<r.compliance_status, r.risk_level, r.risk_score>>

\* C19: without an anomaly-model signal (none, or isAnomaly false) the score maps to status, risk level and
\* risk score by inclusive lower bounds: >= 90 Excellent/Low/10, >= 75
\* Good/Low/25, >= 60 Fair/Medium/50, below Poor/High/75; 9 of 12 points is Good.
C19_TierByInclusiveBounds ==
    (Scored /\ ~MlAnomaly(scoreCall[1].ml)) =>
        LET r == scoreCall[1].result[1]
        IN  /\ RowOf(r) = TableRow(r.score_num, r.score_den)
            /\ r.checks_passed2 = 18 => RowOf(r) = <<"Good", "Low Risk", 25>>

\* exactly 9 of 12 points, scored without a signal
C19_Witness ==
    /\ Scored
    /\ scoreCall[1].ml = <<>>
    /\ scoreCall[1].result[1].checks_passed2 = 18
    /\ scoreCall[1].result[1].compliance_status = "Good"

\* C20: with isAnomaly true the risk score is the tier's base score plus 20 and
\* the risk level is High exactly when that sum exceeds 50 (Fair, Poor), the
\* tier's level otherwise (Excellent, Good keep Low); with isAnomaly false or no
\* signal, risk score and risk level are the tier's base values.
C20_MlRiskAdjustment ==
    Scored =>
        LET c == scoreCall[1]
            r == c.result[1]
            base == TableRow(r.score_num, r.score_den)
        IN  /\ r.compliance_status = base[1]
            /\ (c.ml # <<>> /\ c.ml[1].is_anomaly) =>
                  /\ r.risk_score = base[3] + 20
                  /\ r.risk_level = IF base[3] + 20 > 50 THEN "High Risk" ELSE base[2]
                  /\ base[1] \in {"Excellent", "Good"} => r.risk_level = "Low Risk"
                  /\ base[1] \in {"Fair", "Poor"} => r.risk_level = "High Risk"
            /\ (c.ml = <<>> \/ ~c.ml[1].is_anomaly) =>
                  /\ r.risk_score = base[3]
                  /\ r.risk_level = base[2]

\* a Fair score with the signal: 50 + 20 forces High
C20_Witness ==
    /\ Scored
    /\ scoreCall[1].ml # <<>>
    /\ scoreCall[1].ml[1].is_anomaly
    /\ scoreCall[1].result[1].compliance_status = "Fair"
    /\ scoreCall[1].result[1].risk_score = 70
    /\ scoreCall[1].result[1].risk_level = "High Risk"

(***************************************************************************)
(* Properties of the GST verification loop                                 *)
(***************************************************************************)
Occurrences(l, x) == Cardinality({i \in 1..Len(l) : l[i] = x})

\* C21: while one invoice is processed the GST verification is invoked exactly
\* once for each distinct GST number of the extracted list, and at most one
\* request goes to the oracle for it: a number that occurs several times is
\* verified once, not once per occurrence.
C21_OncePerDistinctGst ==
    UploadSucceeded =>
        LET l == uploadView[1].locals[1]
        IN  \A g \in Range(l.invoice_data.gst_numbers) :
                /\ Occurrences(l.verify_gst_calls, g) = 1
                /\ Occurrences(l.gst_requests, g) <= 1

(***************************************************************************)
(* Properties of concurrent detector runs                                  *)
(***************************************************************************)
\* the stored anomalies that a request's detector run has written
StoredBy(r) == {i \in 1..Len(anomalies) : anomalies[i].invoiceId = reqs[r].invoice_id}

\* C22: the anomalies of one detector run are persisted as a single batch after
\* all checks: the store never holds a proper non-empty subset of a run's
\* anomalies, which a concurrent reader would see and a failure would leave.
C22_PersistedAsOneBatch ==
    \A r \in Requests :
        reqs[r].pc # "idle" =>
            \/ StoredBy(r) = {}
            \/ Cardinality(StoredBy(r)) = Len(reqs[r].result)

(***************************************************************************)
(* The pipeline on uploads that between them make every check of the      *)
(* detector report, and the dashboard's trend reads of that store          *)
(***************************************************************************)
MaxAuditUploads == 5    \* invoices uploaded in a run of the audit pipeline

\* A: the regular invoice of Acme; B: Bolt without GST number; C: Bolt under
\* Acme's GST number, which the oracle rejects, ten times the usual amount, both
\* codes rejected, two rate mismatches
AuditInputs ==
    { InvoiceData("INV-1", "Acme", <<GstA>>, 10000, <<"8517">>, TRUE, <<>>, 0),
      InvoiceData("INV-2", "Bolt", <<>>, 10000, <<"8517">>, TRUE, <<>>, 0),
      InvoiceData("INV-1", "Bolt", <<GstA>>, 100000, <<"8517", "8471">>, FALSE,
                  <<[code |-> "8517", is_valid |-> FALSE],
                    [code |-> "8471", is_valid |-> FALSE]>>, 2) }

AuditStoreInvoice(data) ==
    NoReadInProgress /\ Len(invoices) < MaxAuditUploads /\ StoreInvoiceCall(data)
AuditDetectAnomalies == NoReadInProgress /\ DetectAnomalies
AuditGetAnomalyTrends(days) ==
    NoReadInProgress /\ pending = <<>> /\ GetAnomalyTrends(days)

NextAudit ==
    \/ \E data \in AuditInputs : AuditStoreInvoice(data)
    \/ AuditDetectAnomalies

SpecAudit == Init /\ [][NextAudit]_vars

\* the trends are read on the day of the uploads
NextBuckets ==
    \/ \E data \in AuditInputs : AuditStoreInvoice(data)
    \/ AuditDetectAnomalies
    \/ \E days \in {0, MaxTrendDays} : AuditGetAnomalyTrends(days)
    \/ Respond

SpecBuckets == Init /\ [][NextBuckets]_vars

\* the place of a type in the order of the checks
CheckOrder ==
    <<"DUPLICATE_INVOICE", "MISSING_GST", "INVALID_GST", "GST_VENDOR_MISMATCH",
      "UNUSUAL_AMOUNT", "INVALID_HSN_SAC", "HSN_GST_RATE_MISMATCH", "HSN_PRICE_DEVIATION">>

CheckRank(type) == CHOOSE k \in 1..Len(CheckOrder) : CheckOrder[k] = type

\* C23: the list a detector run returns is ordered by the order of the checks:
\* DUPLICATE_INVOICE, MISSING_GST, INVALID_GST, GST_VENDOR_MISMATCH,
\* UNUSUAL_AMOUNT, the INVALID_HSN_SAC entries, the HSN_GST_RATE_MISMATCH entries,
\* HSN_PRICE_DEVIATION; no entry of a later check precedes one of an earlier check.
C23_ResultInCheckOrder ==
    lastRun # <<>> =>
        LET result == lastRun[1].result
        IN  /\ \A i \in 1..Len(result) : result[i].type \in Range(CheckOrder)
            /\ \A i, j \in 1..Len(result) :
                  i < j => CheckRank(result[i].type) <= CheckRank(result[j].type)

\* a run in which seven of the eight checks report
C23_Witness ==
    /\ lastRun # <<>>
    /\ TypesOf(lastRun[1].result) = Range(CheckOrder) \ {"MISSING_GST"}
    /\ Cardinality(EntriesOf(lastRun[1].result, "INVALID_HSN_SAC")) = 2
    /\ Cardinality(EntriesOf(lastRun[1].result, "HSN_GST_RATE_MISMATCH")) = 2

(***************************************************************************)
(* Properties of single checks of the detector                             *)
(***************************************************************************)
\* stored invoices, other than the one evaluated, that carry the evaluated
\* invoice's primary GST number under another vendor name
OthersWithGstOfOtherVendor ==
    {d \in Range(invoices) : /\ d._id # OidOf(Len(invoices))
                             /\ d.gstNumber = lastRun[1].data.gst_numbers[1]
                             /\ d.vendorName # lastRun[1].data.vendor_name}

\* C24: a detector run emits GST_VENDOR_MISMATCH (HIGH) if and only if the
\* invoice has a primary GST number and another stored invoice has that primary
\* GST number with a different vendor name; relatedInvoiceId is the id of such
\* an invoice and never the id of the invoice under evaluation.
C24_VendorMismatchIff ==
    RunIsLatest =>
        LET run == lastRun[1]
            hits == EntriesOf(run.result, "GST_VENDOR_MISMATCH")
        IN  /\ hits # {} <=> (run.data.gst_numbers # <<>> /\ OthersWithGstOfOtherVendor # {})
            /\ Cardinality(hits) <= 1
            /\ \A i \in hits :
                  /\ run.result[i].severity = "HIGH"
                  /\ run.result[i].relatedInvoiceId # run.invoice_id
                  /\ \E d \in OthersWithGstOfOtherVendor :
                        run.result[i].relatedInvoiceId = StrOf(d._id)

\* the GST number was seen under the other name and under the same name before
C24_Witness ==
    /\ RunIsLatest
    /\ Len(invoices) = 3
    /\ lastRun[1].data.gst_numbers # <<>>
    /\ OthersWithGstOfOtherVendor # {}
    /\ \E d \in Range(invoices) : /\ d._id # OidOf(Len(invoices))
                                  /\ d.gstNumber = lastRun[1].data.gst_numbers[1]
                                  /\ d.vendorName = lastRun[1].data.vendor_name
    /\ EntriesOf(lastRun[1].result, "GST_VENDOR_MISMATCH") # {}

(***************************************************************************)
(* The vendor aggregate over time                                          *)
(***************************************************************************)
\* uploads of two vendors, with and without the GST number
VendorInputs ==
    { InvoiceData("INV-1", vendor, gsts, 10000, <<>>, TRUE, <<>>, 0) :
        vendor \in {"Acme", "Bolt"}, gsts \in {<<>>, <<GstA>>} }

VendorTick == pending = <<>> /\ Tick

NextVendor ==
    \/ \E data \in VendorInputs : StoreInvoice(data)
    \/ DetectAnomalies
    \/ VendorTick

SpecVendor == Init /\ [][NextVendor]_vars

\* the step is a store_invoice call
StoresInvoice == Len(invoices') = Len(invoices) + 1

\* C25: once a vendor row exists, every later store_invoice for its GST number
\* leaves firstInvoiceDate, sets vendorName and lastInvoiceDate from the new
\* invoice and adds exactly 1 to totalInvoices; no step makes totalInvoices smaller.
C25_VendorRowStep ==
    \A v \in vendors :
        \E w \in vendors' :
            /\ w.gstNumber = v.gstNumber
            /\ w.totalInvoices >= v.totalInvoices
            /\ (StoresInvoice /\ invoices'[Len(invoices')].gstNumber = v.gstNumber) =>
                  LET doc == invoices'[Len(invoices')]
                  IN  /\ w.firstInvoiceDate = v.firstInvoiceDate
                      /\ w.vendorName = doc.vendorName
                      /\ w.lastInvoiceDate = doc.uploadDate
                      /\ w.totalInvoices = v.totalInvoices + 1
                      /\ w.totalAmount = v.totalAmount + doc.totalAmount

C25_VendorRowUpdate == [][C25_VendorRowStep]_vars

\* a row first seen under one name on one day, last seen under the other name
\* on a later day
C25_Witness ==
    \E v \in vendors :
        /\ v.totalInvoices = 2
        /\ v.firstInvoiceDate.day < v.lastInvoiceDate.day
        /\ v.vendorName = "Bolt"
        /\ \E d \in Range(invoices) : d.gstNumber = v.gstNumber /\ d.vendorName = "Acme"

(***************************************************************************)
(* Properties of the trend buckets                                         *)
(***************************************************************************)
\* the stored anomalies of a date that the range of the last trends call holds
InRangeOnDate(date) ==
    {i \in 1..Len(anomalies) :
        /\ DateString(anomalies[i].detectedDate) = date
        /\ TimeLeq(PlusDays(trendsView[1].at, -trendsView[1].days), anomalies[i].detectedDate)
        /\ TimeLeq(anomalies[i].detectedDate, trendsView[1].at)}

\* C26: each of the eight anomaly types is counted in exactly one of the four
\* buckets: in every entry of get_anomaly_trends the total is the number of
\* anomalies of the date and equals the sum of duplicates, invalidGst, missingGst
\* and hsnAnomalies.
C26_TotalIsSumOfBuckets ==
    trendsView # NoCall =>
        \A k \in 1..Len(trendsView[1].result) :
            LET e == trendsView[1].result[k]
            IN  /\ e.total = e.duplicates + e.invalidGst + e.missingGst + e.hsnAnomalies
                /\ e.total = Cardinality(InRangeOnDate(e.date))

\* the store holds all eight types and the trends count them
C26_Witness ==
    /\ trendsView # NoCall
    /\ {anomalies[i].anomalyType : i \in 1..Len(anomalies)} = Range(CheckOrder)
    /\ \E k \in 1..Len(trendsView[1].result) :
          LET e == trendsView[1].result[k]
          IN  /\ e.duplicates > 0 /\ e.invalidGst > 0 /\ e.missingGst > 0
              /\ e.hsnAnomalies > 0
              /\ e.total = Len(anomalies)

(***************************************************************************)
(* get_invoice_history (database.py 283-301)                               *)
(***************************************************************************)
\* find().sort('uploadDate', DESCENDING).limit(limit): the positions returned;
\* which of several invoices of one date are cut is not determined
LatestInvoices(invs, limit) ==
    { T \in SUBSET (1..Len(invs)) :
        /\ Cardinality(T) = Min(limit, Len(invs))
        /\ \A i \in T, j \in (1..Len(invs)) \ T :
              TimeLeq(invs[j].uploadDate, invs[i].uploadDate) }

\* self.anomalies.find({'invoiceId': invoice_id}) with invoice_id = inv['_id'],
\* read before the _id is replaced by its string: the positions that match
AnomaliesOfInvoice(anoms, invoice_id) ==
    {k \in 1..Len(anoms) : anoms[k].invoiceId = invoice_id}

\* one returned invoice: _id is the string, anomalies the documents found
HistoryEntry(invs, anoms, i) ==
    [ _id |-> StrOf(invs[i]._id),
      invoiceNumber |-> invs[i].invoiceNumber,
      anomalies |-> AnomaliesOfInvoice(anoms, invs[i]._id) ]

InvoiceHistoryResults(invs, anoms, limit) ==
    { {HistoryEntry(invs, anoms, i) : i \in T} : T \in LatestInvoices(invs, limit) }

GetInvoiceHistory(limit) ==
    /\ \E result \in InvoiceHistoryResults(invoices, anomalies, limit) :
          historyView' = <<[limit |-> limit, result |-> result]>>
    /\ UNCHANGED <<storeVars, pending, lastRun, now, reqs, pureVars,
                   trendsView, anomaliesView, uploadView>>

ServeGetInvoiceHistory(limit) ==
    NoReadInProgress /\ pending = <<>> /\ GetInvoiceHistory(limit)

NextHistory ==
    \/ \E data \in ReadInputs : ServeStoreInvoice(data)
    \/ ServeDetectAnomalies
    \/ ServeTick
    \/ \E limit \in {1, 50} : ServeGetInvoiceHistory(limit)
    \/ Respond

SpecHistory == Init /\ [][NextHistory]_vars

\* the anomaly records that the detector persisted with the invoice as owner
PersistedFor(id) == {k \in 1..Len(anomalies) : anomalies[k].invoiceId = id}

\* C27: every invoice returned by get_invoice_history carries exactly the
\* anomaly records the detector persisted with that invoice as owner: an invoice
\* whose detector run produced k anomalies is returned with k anomalies.
C27_HistoryCarriesAnomalies ==
    historyView # NoCall =>
        \A h \in historyView[1].result : h.anomalies = PersistedFor(h._id)

(***************************************************************************)
(* The unusual-amount check on a vendor with few invoices                  *)
(***************************************************************************)
\* uploads of one vendor: totals the OCR could not read (0), whole totals and a
\* total with paise
AmountInputs ==
    { InvoiceData(number, "Acme", <<GstA>>, amount, <<>>, TRUE, <<>>, 0) :
        number \in {"INV-1", "INV-2"}, amount \in {0, 1999, 10000, 35000} }

NextAmount ==
    \/ \E data \in AmountInputs : StoreInvoice(data)
    \/ DetectAnomalies

SpecAmount == Init /\ [][NextAmount]_vars

\* stored invoices, other than the one evaluated, of the evaluated invoice's vendor
OthersOfVendor ==
    {d \in Range(invoices) : /\ d._id # OidOf(Len(invoices))
                             /\ d.vendorName = lastRun[1].data.vendor_name}

\* C28: a detector run never emits UNUSUAL_AMOUNT when at most 2 other stored
\* invoices share the vendor name, however large the current amount: the
\* average includes the invoice under evaluation.
C28_NoUnusualAmountBelowThreeOthers ==
    (RunIsLatest /\ Cardinality(OthersOfVendor) <= 2) =>
        "UNUSUAL_AMOUNT" \notin TypesOf(lastRun[1].result)

(***************************************************************************)
(* Concurrent uploads of one invoice number                                *)
(***************************************************************************)
\* the request has answered
Answered(r) == reqs[r].pc \in {"done", "failed"}

\* the detector run of request r reports a duplicate that references the
\* invoice of request s
ReportsDuplicateOf(r, s) ==
    \E i \in 1..Len(reqs[r].result) :
        /\ reqs[r].result[i].type = "DUPLICATE_INVOICE"
        /\ reqs[r].result[i].relatedInvoiceId = reqs[s].invoice_id

C30_ArithmeticPointIffTotal ==
    Scored =>
        LET c == scoreCall[1]
            r == c.result[1]
        IN  /\ r.arithmetic_ok <=> c.invoice.total_amount # 0
            /\ (\E i \in 1..Len(r.anomalies_detected) :
                   r.anomalies_detected[i] = "Arithmetic error")
               <=> c.invoice.total_amount = 0

====
